---- MODULE Spec2Model ----
(***************************************************************************)
(* The Crimson interpreter (src/Crimson.cpp) as a state machine.           *)
(*                                                                         *)
(* A run is runFile: the source text is tokenized, the entry block `main`  *)
(* is located and validated, and the statements between mainStart and      *)
(* mainEnd are parsed and executed in one pass over a cursor.              *)
(*                                                                         *)
(* Text (std::string) is a sequence of one-character strings, so that the  *)
(* scanner, the quote stripping of crym/inp and the numeric conversions    *)
(* std::stod / std::stoi are computed character by character.  Token       *)
(* indices and string positions are 0-based as in the source; Tok(i) and   *)
(* At(s, i) do the shift to TLA+'s 1-based sequences.                       *)
(***************************************************************************)
EXTENDS Integers, Sequences, FiniteSets, TLC

VARIABLES
    code,          \* runFile: the text read from the source file
    tokens,        \* CrimsonInterpreter::tokens
    currentToken,  \* CrimsonInterpreter::currentToken
    variables,     \* CrimsonInterpreter::variables  (name -> Variable)
    functions,     \* CrimsonInterpreter::functions  (name -> Function)
    mainStart,     \* parseAndExecute: local mainStart
    mainEnd,       \* parseAndExecute: local mainEnd
    stack,         \* the call stack below parseAndExecute (last = innermost)
    out,           \* the characters written to std::cout
    err,           \* the messages written to std::cerr
    pc,            \* the position of the run in runFile / parseAndExecute
    exitCode       \* the exit status of the process, once pc = "exit"

vars == << code, tokens, currentToken, variables, functions, mainStart,
           mainEnd, stack, out, err, pc, exitCode >>

-----------------------------------------------------------------------------
(* Fixed texts of the program.                                             *)

T_int == <<"i", "n", "t">>
T_float == <<"f", "l", "o", "a", "t">>
T_bool == <<"b", "o", "o", "l">>
T_string == <<"s", "t", "r", "i", "n", "g">>
T_void == <<"v", "o", "i", "d">>
T_if == <<"i", "f">>
T_else == <<"e", "l", "s", "e">>
T_switch == <<"s", "w", "i", "t", "c", "h">>
T_main == <<"m", "a", "i", "n">>
T_include == <<"i", "n", "c", "l", "u", "d", "e">>
T_true == <<"t", "r", "u", "e">>
T_false == <<"f", "a", "l", "s", "e">>
T_else_if == <<"e", "l", "s", "e", " ", "i", "f">>
T_crym == <<"c", "r", "y", "m">>
T_inp == <<"i", "n", "p">>
T_Sleep == <<"S", "l", "e", "e", "p">>
T_hash_include == <<"#", "i", "n", "c", "l", "u", "d", "e">>
T_zero == <<"0">>
T_zero_float == <<"0", ".", "0">>
T_including == <<"I", "n", "c", "l", "u", "d", "i", "n", "g", " ", "l", "i", "b", "r", "a", "r", "y", ":", " ">>
T_executing == <<"E", "x", "e", "c", "u", "t", "i", "n", "g", " ", "f", "u", "n", "c", "t", "i", "o", "n", ":", " ">>
T_inf == <<"i", "n", "f">>
T_nan == <<"n", "a", "n">>
T_empty == << >>
T_endl == <<"\n">>

\* The keyword set of the interpreter.
keywords ==
    { T_int, T_float, T_bool, T_string, T_void, T_if, T_else, T_switch,
      T_main, T_include, T_true, T_false, T_else_if }

\* The built-in function names.
builtinFunctions == { T_crym, T_inp, T_Sleep }

-----------------------------------------------------------------------------
(* Characters (<cctype> in the "C" locale).                                *)

Digits == {"0", "1", "2", "3", "4", "5", "6", "7", "8", "9"}

Letters ==
    { "a", "b", "c", "d", "e", "f", "g", "h", "i", "j", "k", "l", "m",
      "n", "o", "p", "q", "r", "s", "t", "u", "v", "w", "x", "y", "z",
      "A", "B", "C", "D", "E", "F", "G", "H", "I", "J", "K", "L", "M",
      "N", "O", "P", "Q", "R", "S", "T", "U", "V", "W", "X", "Y", "Z" }

isspace(c) == c \in {" ", "\t", "\n", "\r", "\f"}
isdigit(c) == c \in Digits
isalpha(c) == c \in Letters
isalnum(c) == isalpha(c) \/ isdigit(c)

\* s[i] of a std::string, 0-based.
At(s, i) == s[i + 1]

\* s.substr(pos, n) for pos + n <= s.length().
substr(s, pos, n) == SubSeq(s, pos + 1, pos + n)

\* while (pos < s.length() && P(s[pos])) pos++;   the value of pos after it.
ScanWhile(P(_), s, pos) ==
    CHOOSE p \in pos .. Len(s) :
        /\ \A q \in pos .. (p - 1) : P(At(s, q))
        /\ (p = Len(s) \/ ~P(At(s, p)))

-----------------------------------------------------------------------------
(* The lexer.                                                              *)

Token(t, v, l, c) == [type |-> t, value |-> v, line |-> l, column |-> c]

\* std::getline over the whole text: the lines, without their '\n'.  A text
\* that ends in '\n' has no further (empty) line after it.
RECURSIVE getlines(_)
RECURSIVE getlinesAt(_, _)
getlines(text) ==
    IF text = << >> THEN << >>
    ELSE getlinesAt(text, ScanWhile(LAMBDA c : c # "\n", text, 0))

\* One getline: the line ends at position n.
getlinesAt(text, n) ==
    IF n = Len(text)
    THEN << text >>
    ELSE << substr(text, 0, n) >> \o getlines(SubSeq(text, n + 2, Len(text)))

\* The string-literal loop: from the character after the opening quote to
\* the closing quote (or the end of the line); \X skips two characters.
RECURSIVE StringBodyEnd(_, _)
StringBodyEnd(line, pos) ==
    IF pos < Len(line) /\ At(line, pos) # "\""
    THEN IF At(line, pos) = "\\" /\ pos + 1 < Len(line)
         THEN StringBodyEnd(line, pos + 2)
         ELSE StringBodyEnd(line, pos + 1)
    ELSE pos

isNumberChar(c) == isdigit(c) \/ c = "."
isWordChar(c) == isalnum(c) \/ c = "_"
isOperatorChar(c) == c \in {"+", "-", "*", "/", "=", "!", "<", ">", "&", "|"}
isDelimiterChar(c) == c \in {"(", ")", "{", "}", ";", ","}

\* The "double operators" test: c followed by d is a two-character operator.
isDoubleOperator(c, d) ==
    \/ (c = "=" /\ d = "=")
    \/ (c = "!" /\ d = "=")
    \/ (c = "<" /\ d = "=")
    \/ (c = ">" /\ d = "=")
    \/ (c = "&" /\ d = "&")
    \/ (c = "|" /\ d = "|")

\* The keyword test of the identifier branch.
wordType(word) == IF word \in keywords THEN "KEYWORD" ELSE "IDENTIFIER"

\* The position after a string literal whose body ends at b: "Include
\* closing quote".
stringEnd(line, b) == IF b < Len(line) THEN b + 1 ELSE b

\* The position after the operator that starts at pos.
operatorEnd(line, pos) ==
    IF pos + 1 < Len(line) /\ isDoubleOperator(At(line, pos), At(line, pos + 1))
    THEN pos + 2
    ELSE pos + 1

notNewline(c) == c # "\n"

\* The inner loop of tokenize over one line, from position pos0: the tokens
\* it pushes.  tokenizeLine skips the blanks, tokenizeAt takes the branch of
\* the character at pos, pushToken pushes line[pos .. e) and continues at e.
RECURSIVE tokenizeLine(_, _, _)
RECURSIVE tokenizeAt(_, _, _)
RECURSIVE pushToken(_, _, _, _, _)

pushToken(line, pos, e, type, lineNum) ==
    << Token(type, substr(line, pos, e - pos), lineNum, pos) >>
    \o tokenizeLine(line, e, lineNum)

tokenizeAt(line, pos, lineNum) ==
    IF pos >= Len(line) THEN << >>
    ELSE IF pos < Len(line) - 1 /\ At(line, pos) = "/" /\ At(line, pos + 1) = "/"
    THEN \* comment: the rest of the line, then break
         << Token("COMMENT", substr(line, pos, Len(line) - pos), lineNum, pos) >>
    ELSE IF At(line, pos) = "#"
    THEN \* directive: to the end of the line (a line holds no '\n')
         pushToken(line, pos, ScanWhile(notNewline, line, pos), "KEYWORD", lineNum)
    ELSE IF At(line, pos) = "\""
    THEN pushToken(line, pos, stringEnd(line, StringBodyEnd(line, pos + 1)), "STRING", lineNum)
    ELSE IF isNumberChar(At(line, pos))
    THEN pushToken(line, pos, ScanWhile(isNumberChar, line, pos), "NUMBER", lineNum)
    ELSE IF isalpha(At(line, pos)) \/ At(line, pos) = "_"
    THEN pushToken(line, pos, ScanWhile(isWordChar, line, pos),
                   wordType(substr(line, pos, ScanWhile(isWordChar, line, pos) - pos)),
                   lineNum)
    ELSE IF isOperatorChar(At(line, pos))
    THEN pushToken(line, pos, operatorEnd(line, pos), "OPERATOR", lineNum)
    ELSE IF isDelimiterChar(At(line, pos))
    THEN pushToken(line, pos, pos + 1, "DELIMITER", lineNum)
    ELSE tokenizeLine(line, pos + 1, lineNum)

tokenizeLine(line, pos0, lineNum) ==
    tokenizeAt(line, ScanWhile(isspace, line, pos0), lineNum)

\* The outer loop of tokenize: line after line, lineNum counting from 1.
RECURSIVE tokenizeLines(_, _)
tokenizeLines(lines, lineNum) ==
    IF lines = << >> THEN << >>
    ELSE tokenizeLine(Head(lines), 0, lineNum)
         \o tokenizeLines(Tail(lines), lineNum + 1)

\* A variant of tokenize that pushes onto the interpreter's token vector
\* instead of a local one.
tokenizeIntoMember(text) ==
    tokens
    \o tokenizeLines(getlines(text), 1)
    \o << Token("END_OF_FILE", T_empty, Len(getlines(text)) + 1, 0) >>

tokenize(text) ==
    tokenizeLines(getlines(text), 1)
    \o << Token("END_OF_FILE", T_empty, Len(getlines(text)) + 1, 0) >>

-----------------------------------------------------------------------------
(* std::stod and std::stoi, as far as the interpreter can observe them:    *)
(* whether they throw, and how two converted values compare.               *)
(*                                                                         *)
(* Both convert the longest prefix that is a number and ignore what        *)
(* follows it; they throw std::invalid_argument when no prefix converts.   *)
(* The texts they are given are token texts or variable values, which are  *)
(* token texts too: none holds an exponent or a hexadecimal prefix after   *)
(* leading digits (the lexer ends a NUMBER at the first character that is  *)
(* no digit and no '.'), so these two forms of strtod are left out.        *)

UpperCase == << "A", "B", "C", "D", "E", "F", "G", "H", "I", "J", "K", "L", "M",
                "N", "O", "P", "Q", "R", "S", "T", "U", "V", "W", "X", "Y", "Z" >>
LowerCase == << "a", "b", "c", "d", "e", "f", "g", "h", "i", "j", "k", "l", "m",
                "n", "o", "p", "q", "r", "s", "t", "u", "v", "w", "x", "y", "z" >>

tolower(c) ==
    IF \E i \in 1 .. Len(UpperCase) : UpperCase[i] = c
    THEN LowerCase[CHOOSE i \in 1 .. Len(UpperCase) : UpperCase[i] = c]
    ELSE c

\* text, from position pos, starts with word, letter case ignored.
StartsWithNoCase(text, pos, word) ==
    /\ pos + Len(word) <= Len(text)
    /\ \A k \in 0 .. (Len(word) - 1) : tolower(At(text, pos + k)) = At(word, k)

DigitValue(c) == CHOOSE d \in 0 .. 9 : At(<<"0", "1", "2", "3", "4", "5", "6", "7", "8", "9">>, d) = c

\* The number a sequence of decimal digits denotes (0 for no digits).
RECURSIVE DigitsValue(_)
DigitsValue(ds) ==
    IF ds = << >> THEN 0
    ELSE 10 * DigitsValue(SubSeq(ds, 1, Len(ds) - 1)) + DigitValue(ds[Len(ds)])

RECURSIVE Pow10(_)
Pow10(k) == IF k = 0 THEN 1 ELSE 10 * Pow10(k - 1)

\* std::stod(text).  ok = FALSE: it throws.  Otherwise the value is
\* "nan", "inf" (signed), or num / 10^scale (signed).  stod skips the
\* blanks, stodSigned takes the sign, stodUnsigned the digits before the
\* point, stodFraction the point and the digits after it.
NoDouble == [ok |-> FALSE, class |-> "none", neg |-> FALSE, num |-> 0, scale |-> 0]

stodValue(neg, intDigits, fracDigits) ==
    IF Len(intDigits) + Len(fracDigits) = 0
    THEN NoDouble
    ELSE [ok |-> TRUE, class |-> "num", neg |-> neg,
          num |-> DigitsValue(intDigits \o fracDigits), scale |-> Len(fracDigits)]

stodFraction(text, p1, neg, i) ==
    IF i < Len(text) /\ At(text, i) = "."
    THEN stodValue(neg, substr(text, p1, i - p1),
                   substr(text, i + 1, ScanWhile(isdigit, text, i + 1) - (i + 1)))
    ELSE stodValue(neg, substr(text, p1, i - p1), << >>)

stodUnsigned(text, p1, neg) ==
    IF StartsWithNoCase(text, p1, T_inf)
    THEN [ok |-> TRUE, class |-> "inf", neg |-> neg, num |-> 0, scale |-> 0]
    ELSE IF StartsWithNoCase(text, p1, T_nan)
    THEN [ok |-> TRUE, class |-> "nan", neg |-> neg, num |-> 0, scale |-> 0]
    ELSE stodFraction(text, p1, neg, ScanWhile(isdigit, text, p1))

stodSigned(text, p0) ==
    IF p0 < Len(text) /\ At(text, p0) \in {"+", "-"}
    THEN stodUnsigned(text, p0 + 1, At(text, p0) = "-")
    ELSE stodUnsigned(text, p0, FALSE)

stod(text) == stodSigned(text, ScanWhile(isspace, text, 0))

\* a < b for two values stod returned (IEEE: every comparison with a NaN is
\* false; the infinities are beyond every number).
signOf(a) == IF a.neg THEN 0 - 1 ELSE 1

doubleLess(a, b) ==
    IF a.class = "nan" \/ b.class = "nan" THEN FALSE
    ELSE IF a.class = "inf" /\ b.class = "inf" THEN a.neg /\ ~b.neg
    ELSE IF a.class = "inf" THEN a.neg
    ELSE IF b.class = "inf" THEN ~b.neg
    ELSE signOf(a) * a.num * Pow10(b.scale) < signOf(b) * b.num * Pow10(a.scale)

doubleEqual(a, b) ==
    /\ a.class # "nan" /\ b.class # "nan"
    /\ ~doubleLess(a, b) /\ ~doubleLess(b, a)

\* std::stoi(text) throws: no digits after the optional blanks and sign
\* (std::invalid_argument), or a value outside int (std::out_of_range).
\* sig: the digits after the leading zeros.
isZeroChar(c) == c = "0"

stoiOutOfRange(sig, neg) ==
    \/ Len(sig) > 10
    \/ /\ Len(sig) = 10
       /\ \/ DigitsValue(SubSeq(sig, 1, 9)) > 214748364
          \/ /\ DigitsValue(SubSeq(sig, 1, 9)) = 214748364
             /\ DigitValue(sig[10]) > (IF neg THEN 8 ELSE 7)

stoiDigits(text, p1, neg, z, e) ==
    \/ e = p1
    \/ stoiOutOfRange(substr(text, z, e - z), neg)

stoiSigned(text, p0) ==
    IF p0 < Len(text) /\ At(text, p0) \in {"+", "-"}
    THEN stoiDigits(text, p0 + 1, At(text, p0) = "-",
                    ScanWhile(isZeroChar, text, p0 + 1), ScanWhile(isdigit, text, p0 + 1))
    ELSE stoiDigits(text, p0, FALSE,
                    ScanWhile(isZeroChar, text, p0), ScanWhile(isdigit, text, p0))

stoiThrows(text) == stoiSigned(text, ScanWhile(isspace, text, 0))

-----------------------------------------------------------------------------
(* The token sequence and the two tables.                                  *)

\* tokens[i], 0-based; only used for i < tokens.size().
Tok(i) == tokens[i + 1]

\* tokens.size()
size == Len(tokens)

\* i < tokens.size() && tokens[i].value == text
ValueIs(i, text) == i < size /\ Tok(i).value = text

Variable(t, v) == [type |-> t, value |-> v]

\* Function(rt, params): the constructor leaves the body empty.
Function(rt, params) == [returnType |-> rt, parameters |-> params, body |-> << >>]

\* map[key] = value of a std::map held as a function on its keys.
MapPut(map, key, value) ==
    [k \in (DOMAIN map) \cup {key} |-> IF k = key THEN value ELSE map[k]]

EmptyMap == [k \in {} |-> 0]

getDataType(type) ==
    IF type = T_int THEN "INT_TYPE"
    ELSE IF type = T_float THEN "FLOAT_TYPE"
    ELSE IF type = T_bool THEN "BOOL_TYPE"
    ELSE IF type = T_string THEN "STRING_TYPE"
    ELSE "VOID_TYPE"

-----------------------------------------------------------------------------
(* Expression evaluation.  Each operator takes the cursor it starts at and *)
(* returns, with its result, the cursor it leaves.                         *)

parseExpression(cur) ==
    IF cur >= size THEN [cur |-> cur, value |-> T_empty]
    ELSE IF Tok(cur).type = "STRING" THEN [cur |-> cur + 1, value |-> Tok(cur).value]
    ELSE IF Tok(cur).type = "NUMBER" THEN [cur |-> cur + 1, value |-> Tok(cur).value]
    ELSE IF Tok(cur).type = "IDENTIFIER"
    THEN [cur   |-> cur + 1,
          value |-> IF Tok(cur).value \in DOMAIN variables
                    THEN variables[Tok(cur).value].value
                    ELSE Tok(cur).value]
    ELSE IF Tok(cur).type = "KEYWORD" /\ Tok(cur).value \in {T_true, T_false}
    THEN [cur |-> cur + 1, value |-> Tok(cur).value]
    ELSE [cur |-> cur, value |-> T_empty]

evaluateBooleanValue(value) ==
    IF value = T_true THEN TRUE
    ELSE IF value = T_false THEN FALSE
    ELSE IF value = T_zero THEN FALSE
    ELSE IF value = T_empty THEN FALSE
    ELSE TRUE

\* The four ordering branches of evaluateComparison, on what std::stod made
\* of the operands.  threw: a std::stod threw (nothing catches it).
orderingComparison(op, l, r) ==
    IF ~(l.ok /\ r.ok) THEN [threw |-> TRUE, result |-> FALSE]
    ELSE [threw  |-> FALSE,
          result |-> IF op = <<"<">> THEN doubleLess(l, r)
                     ELSE IF op = <<">">> THEN doubleLess(r, l)
                     ELSE IF op = <<"<", "=">> THEN doubleLess(l, r) \/ doubleEqual(l, r)
                     ELSE doubleLess(r, l) \/ doubleEqual(l, r)]

\* A variant of evaluateComparison whose == and != compare as numbers when
\* both operands convert.
evaluateComparisonNumeric(left, op, right) ==
    IF op \in { <<"=", "=">>, <<"!", "=">> }
    THEN [threw  |-> FALSE,
          result |-> (op = <<"=", "=">>)
                     <=> (IF stod(left).ok /\ stod(right).ok
                          THEN doubleEqual(stod(left), stod(right))
                          ELSE left = right)]
    ELSE IF op \in { <<"<">>, <<">">>, <<"<", "=">>, <<">", "=">> }
    THEN orderingComparison(op, stod(left), stod(right))
    ELSE [threw |-> FALSE, result |-> FALSE]

evaluateComparison(left, op, right) ==
    IF op = <<"=", "=">> THEN [threw |-> FALSE, result |-> (left = right)]
    ELSE IF op = <<"!", "=">> THEN [threw |-> FALSE, result |-> (left # right)]
    ELSE IF op \in { <<"<">>, <<">">>, <<"<", "=">>, <<">", "=">> }
    THEN orderingComparison(op, stod(left), stod(right))
    ELSE [threw |-> FALSE, result |-> FALSE]

\* evaluateCondition after its right operand: the comparison.
conditionCompared(cur, cmp) == [cur |-> cur, threw |-> cmp.threw, result |-> cmp.result]

conditionAfterOperator(leftValue, op, right) ==
    conditionCompared(right.cur, evaluateComparison(leftValue, op, right.value))

\* evaluateCondition after its left operand: an operator and a right
\* operand, or the single value.
conditionAfterLeft(left) ==
    IF left.cur >= size
    THEN [cur |-> left.cur, threw |-> FALSE, result |-> FALSE]
    ELSE IF Tok(left.cur).type = "OPERATOR" /\ Tok(left.cur).value # T_empty
    THEN conditionAfterOperator(left.value, Tok(left.cur).value, parseExpression(left.cur + 1))
    ELSE [cur    |-> IF Tok(left.cur).type = "OPERATOR" THEN left.cur + 1 ELSE left.cur,
          threw  |-> FALSE,
          result |-> evaluateBooleanValue(left.value)]

evaluateCondition(cur) ==
    IF cur >= size
    THEN [cur |-> cur, threw |-> FALSE, result |-> FALSE]
    ELSE conditionAfterLeft(parseExpression(cur))

-----------------------------------------------------------------------------
(* The handlers that call no block: each is computed whole, from the       *)
(* cursor it starts at.                                                    *)

\* The element of a set of one element: The({ F(v) : v \in { e } }) is F(e),
\* with e computed once, as a local variable of the source is.
The(S) == CHOOSE x \in S : TRUE

\* The loop of skipBlock (and its braceCount), from cursor cur.
RECURSIVE skipBlockLoop(_, _)
skipBlockLoop(cur, braceCount) ==
    IF cur < size /\ braceCount > 0
    THEN skipBlockLoop(cur + 1,
                       IF Tok(cur).value = <<"{">> THEN braceCount + 1
                       ELSE IF Tok(cur).value = <<"}">> THEN braceCount - 1
                       ELSE braceCount)
    ELSE cur

\* A variant of skipBlock that counts no depth: it stops after the first "}".
skipBlockToFirstClose(cur) ==
    IF \E j \in cur .. (size - 1) : Tok(j).value = <<"}">>
    THEN 1 + CHOOSE j \in cur .. (size - 1) :
                 Tok(j).value = <<"}">> /\ \A k \in cur .. (j - 1) : Tok(k).value # <<"}">>
    ELSE IF cur < size THEN size ELSE cur

\* skipBlock(): the cursor it leaves.
skipBlock(cur) == The({ skipBlockLoop(from, 1) : from \in { cur } })

\* A variant of SkipIf without the test against tokens.size(): past the end
\* of the tokens it moves on.
SkipIfUnbounded(cur, text) ==
    IF cur >= size \/ Tok(cur).value = text THEN cur + 1 ELSE cur

\* cur, past the token there if it is text: "Skip ... if present".
SkipIf(cur, text) == IF ValueIs(cur, text) THEN cur + 1 ELSE cur

\* A variant of defaultValue with the default of int for float as well.
defaultValueNumeric(type) ==
    IF type = "INT_TYPE" \/ type = "FLOAT_TYPE" THEN T_zero
    ELSE IF type = "BOOL_TYPE" THEN T_false
    ELSE T_empty

\* The default value of a declaration without initialiser.
defaultValue(type) ==
    IF type = "INT_TYPE" THEN T_zero
    ELSE IF type = "FLOAT_TYPE" THEN T_zero_float
    ELSE IF type = "BOOL_TYPE" THEN T_false
    ELSE T_empty

\* A variant of bindVariable that keeps an earlier binding of the name, as
\* an insert into the map would.
bindVariableOnce(cur, varName, type, value) ==
    [cur       |-> SkipIf(cur, <<";">>),
     variables |-> IF varName \in DOMAIN variables THEN variables
                   ELSE MapPut(variables, varName, Variable(type, value))]

\* The end of parseVariableDeclaration: the binding, and the semicolon.
bindVariable(cur, varName, type, value) ==
    [cur       |-> SkipIf(cur, <<";">>),
     variables |-> MapPut(variables, varName, Variable(type, value))]

bindExpression(varName, type, expr) == bindVariable(expr.cur, varName, type, expr.value)

\* parseVariableDeclaration(): the cursor and the variable table it leaves.
parseVariableDeclaration(cur) ==
    IF cur + 1 < size /\ Tok(cur + 1).type = "IDENTIFIER"
    THEN IF ValueIs(cur + 2, <<"=">>)
         THEN bindExpression(Tok(cur + 1).value, getDataType(Tok(cur).value),
                             parseExpression(cur + 3))
         ELSE bindVariable(cur + 2, Tok(cur + 1).value, getDataType(Tok(cur).value),
                           defaultValue(getDataType(Tok(cur).value)))
    ELSE [cur |-> cur + 1, variables |-> variables]

\* The parameter loop of parseFunctionDeclaration: to the next ")".
RECURSIVE parameterLoop(_, _)
parameterLoop(cur, parameters) ==
    IF cur < size /\ Tok(cur).value # <<")">>
    THEN parameterLoop(cur + 1,
                       IF Tok(cur).type = "IDENTIFIER"
                       THEN Append(parameters, Tok(cur).value)
                       ELSE parameters)
    ELSE [cur |-> cur, parameters |-> parameters]

\* The body loop of parseFunctionDeclaration: it stops on the "}" that
\* brings braceCount to 0, without passing it.
RECURSIVE bodyLoop(_, _)
bodyLoop(cur, braceCount) ==
    IF cur < size /\ braceCount > 0
    THEN IF Tok(cur).value = <<"{">> THEN bodyLoop(cur + 1, braceCount + 1)
         ELSE IF Tok(cur).value = <<"}">>
         THEN IF braceCount - 1 > 0 THEN bodyLoop(cur + 1, braceCount - 1) ELSE cur
         ELSE bodyLoop(cur + 1, braceCount)
    ELSE cur

\* A variant of declareFunction that passes the "{" and leaves the body to
\* the caller's loop.
declareFunctionEntering(funcName, parameters, cur) ==
    IF ValueIs(cur, <<"{">>)
    THEN [cur       |-> cur + 1,
          functions |-> MapPut(functions, funcName, Function("VOID_TYPE", parameters))]
    ELSE [cur |-> cur, functions |-> functions]

\* parseFunctionDeclaration after the parameter list, at cur: the body, and
\* the entry in the function table.
declareFunction(funcName, parameters, cur) ==
    IF ValueIs(cur, <<"{">>)
    THEN [cur       |-> SkipIf(bodyLoop(cur + 1, 1), <<"}">>),
          functions |-> MapPut(functions, funcName, Function("VOID_TYPE", parameters))]
    ELSE [cur |-> cur, functions |-> functions]

functionAfterParameters(funcName, ps) ==
    declareFunction(funcName, ps.parameters, SkipIf(ps.cur, <<")">>))

\* parseFunctionDeclaration(): the cursor and the function table it leaves.
parseFunctionDeclaration(cur) ==
    IF cur + 1 < size /\ Tok(cur + 1).type = "IDENTIFIER"
    THEN IF ValueIs(cur + 2, <<"(">>)
         THEN functionAfterParameters(Tok(cur + 1).value, parameterLoop(cur + 3, << >>))
         ELSE [cur |-> cur + 2, functions |-> functions]
    ELSE [cur |-> cur + 1, functions |-> functions]

\* "Remove quotes if present" of crym and inp.
stripQuotes(message) ==
    IF Len(message) >= 2 /\ At(message, 0) = "\"" /\ At(message, Len(message) - 1) = "\""
    THEN substr(message, 1, Len(message) - 2)
    ELSE message

\* A variant of executeFunction whose Sleep does not convert its argument,
\* and so never throws.
executeFunctionSleepUnchecked(funcName, args) ==
    IF funcName = T_crym
    THEN [threw  |-> FALSE,
          output |-> IF args # << >> THEN stripQuotes(args[1]) \o T_endl ELSE << >>]
    ELSE IF funcName = T_inp
    THEN [threw  |-> FALSE,
          output |-> IF args # << >> THEN stripQuotes(args[1]) ELSE << >>]
    ELSE IF funcName = T_Sleep
    THEN [threw |-> FALSE, output |-> << >>]
    ELSE IF funcName \in DOMAIN functions
    THEN [threw |-> FALSE, output |-> T_executing \o funcName \o T_endl]
    ELSE [threw |-> FALSE, output |-> << >>]

\* executeFunction(funcName, args): what it writes to std::cout, and whether
\* it throws (std::stoi in Sleep).  inp reads a line and drops it; Sleep
\* waits: neither changes the interpreter.
executeFunction(funcName, args) ==
    IF funcName = T_crym
    THEN [threw  |-> FALSE,
          output |-> IF args # << >> THEN stripQuotes(args[1]) \o T_endl ELSE << >>]
    ELSE IF funcName = T_inp
    THEN [threw  |-> FALSE,
          output |-> IF args # << >> THEN stripQuotes(args[1]) ELSE << >>]
    ELSE IF funcName = T_Sleep
    THEN [threw  |-> args # << >> /\ stoiThrows(args[1]), output |-> << >>]
    ELSE IF funcName \in DOMAIN functions
    THEN [threw |-> FALSE, output |-> T_executing \o funcName \o T_endl]
    ELSE [threw |-> FALSE, output |-> << >>]

\* A variant of argumentValue that does not look the identifier up.
argumentValueUnresolved(token) == token.value

\* The value an argument of a call contributes.
argumentValue(token) ==
    IF token.type = "IDENTIFIER" /\ token.value \in DOMAIN variables
    THEN variables[token.value].value
    ELSE token.value

\* The argument loop of parseStatement: to the next ")".
RECURSIVE argumentLoop(_, _)
argumentLoop(cur, args) ==
    IF cur < size /\ Tok(cur).value # <<")">>
    THEN argumentLoop(cur + 1,
                      IF Tok(cur).type \in {"STRING", "NUMBER", "IDENTIFIER"}
                      THEN Append(args, argumentValue(Tok(cur)))
                      ELSE args)
    ELSE [cur |-> cur, args |-> args]

\* A variant of statementExecuted that starts the entry block again after a
\* call that lacks its semicolon.
statementExecutedRestarting(cur, ex) ==
    [cur    |-> IF ex.threw THEN cur
                ELSE IF ValueIs(cur, <<";">>) THEN cur + 1 ELSE mainStart,
     output |-> ex.output,
     threw  |-> ex.threw]

\* parseStatement after executeFunction, with the cursor after the ")":
\* the semicolon, unless executeFunction threw.
statementExecuted(cur, ex) ==
    [cur    |-> IF ex.threw THEN cur ELSE SkipIf(cur, <<";">>),
     output |-> ex.output,
     threw  |-> ex.threw]

statementAfterArguments(identifier, as) ==
    statementExecuted(SkipIf(as.cur, <<")">>), executeFunction(identifier, as.args))

\* parseStatement(): the cursor it leaves, what it writes, whether it throws
\* (then the cursor is the one at the throw).
parseStatement(cur) ==
    IF cur < size /\ Tok(cur).type = "IDENTIFIER"
    THEN IF ValueIs(cur + 1, <<"(">>)
         THEN statementAfterArguments(Tok(cur).value, argumentLoop(cur + 2, << >>))
         ELSE [cur |-> cur + 1, output |-> << >>, threw |-> FALSE]
    ELSE [cur |-> cur, output |-> << >>, threw |-> FALSE]

\* The library-name loop of parseInclude: to the next DELIMITER.
RECURSIVE libNameLoop(_, _)
libNameLoop(cur, libName) ==
    IF cur < size /\ Tok(cur).type # "DELIMITER"
    THEN libNameLoop(cur + 1, libName \o Tok(cur).value)
    ELSE [cur |-> cur, libName |-> libName]

includeAfterName(lib) ==
    [cur    |-> SkipIf(lib.cur, <<">">>),
     output |-> T_including \o lib.libName \o T_endl]

\* parseInclude(): the cursor it leaves and what it writes.
parseInclude(cur) ==
    IF cur + 1 < size /\ Tok(cur + 1).type = "DELIMITER" /\ Tok(cur + 1).value = <<"<">>
    THEN includeAfterName(libNameLoop(cur + 2, << >>))
    ELSE [cur |-> cur + 1, output |-> << >>]

-----------------------------------------------------------------------------
(* The first pass of parseAndExecute: the entry block and its bounds.      *)

\* A variant of isMainPair that takes any keyword before `main`.
isMainPairAnyKeyword(i) ==
    /\ Tok(i).type = "KEYWORD"
    /\ i + 1 < size
    /\ Tok(i + 1).value = T_main

\* The test of the "Look for main function" loop at index i.
isMainPair(i) ==
    /\ Tok(i).type = "KEYWORD"
    /\ Tok(i).value \in {T_void, T_int}
    /\ i + 1 < size
    /\ Tok(i + 1).value = T_main

hasMainFunction == \E i \in 0 .. (size - 1) : isMainPair(i)

\* The index at which that loop breaks.
findMainStart ==
    CHOOSE i \in 0 .. (size - 1) :
        isMainPair(i) /\ \A j \in 0 .. (i - 1) : ~isMainPair(j)

\* The "Find main function boundaries" loop from index i: the index it
\* assigns to mainEnd, or 0 (the initial mainEnd) when it assigns none.
RECURSIVE boundsLoop(_, _, _)
boundsLoop(i, braceCount, inMainFunction) ==
    LET \* the first test of the body: `main` before "(", then `continue`
        enters == Tok(i).value = T_main /\ i + 1 < size /\ Tok(i + 1).value = <<"(">>
        \* the "}" that brings braceCount to 0, then `break`
        closes ==
            braceCount - 1 = 0 /\ inMainFunction /\ ~enters /\ Tok(i).value = <<"}">>
        count ==
            IF enters \/ ~inMainFunction THEN braceCount
            ELSE IF Tok(i).value = <<"{">> THEN braceCount + 1
            ELSE IF Tok(i).value = <<"}">> THEN braceCount - 1
            ELSE braceCount
    IN  IF i < size /\ ~closes
        THEN boundsLoop(i + 1, count, inMainFunction \/ enters)
        ELSE IF i < size THEN i ELSE 0

\* A variant of findMainEnd that counts no depth: the first "}" from start
\* on, or 0.
findMainEndFirstClose(start) ==
    IF \E i \in start .. (size - 1) : Tok(i).value = <<"}">>
    THEN CHOOSE i \in start .. (size - 1) :
            Tok(i).value = <<"}">> /\ \A j \in start .. (i - 1) : Tok(j).value # <<"}">>
    ELSE 0

findMainEnd(start) == boundsLoop(start, 0, FALSE)

\* A variant of isOutsideMain that looks before main only.
isOutsideMainBefore(i, start, end) ==
    /\ i < start
    /\ Tok(i).type = "IDENTIFIER"
    /\ Tok(i).value \in {T_crym, T_Sleep, T_inp}

\* The test of the "Check for code outside main function" loop at index i.
isOutsideMain(i, start, end) ==
    /\ (i < start \/ i > end)
    /\ Tok(i).type = "IDENTIFIER"
    /\ Tok(i).value \in {T_crym, T_Sleep, T_inp}

\* The index at which that loop reports and returns.
firstOutsideMain(start, end) ==
    CHOOSE i \in 0 .. (size - 1) :
        isOutsideMain(i, start, end) /\ \A j \in 0 .. (i - 1) : ~isOutsideMain(j, start, end)

\* The messages on std::cerr.
ErrNoMain ==
    [msg  |-> "Error: No main function found. Code must be inside void main() or int main() to execute.",
     line |-> 0]
ErrNotClosed == [msg |-> "Error: Main function not properly closed with }", line |-> 0]
\* "Error: Line " << tokens[i].line << ": Code outside ..."
ErrOutsideMain(line) ==
    [msg  |-> "Code outside main function is not allowed. All executable code must be inside main().",
     line |-> line]
\* What the terminate handler of the C++ runtime may print for an exception
\* nothing catches.
ErrTerminate == [msg |-> "terminate called after throwing an instance", line |-> 0]

\* The exit status of a process ended by abort() (SIGABRT), as a shell sees it.
AbortStatus == 134

-----------------------------------------------------------------------------
(* The call stack.  parseAndExecute's loop runs on the empty stack;        *)
(* parseBlock and parseIfStatement, which call each other, have frames.    *)

\* A parseBlock at the head of its loop, with its braceCount.
BlockFrame(braceCount) ==
    [fn |-> "parseBlock", braceCount |-> braceCount, executed |-> FALSE, final |-> FALSE]

\* A parseIfStatement at the head of its else loop, with its executed flag;
\* final = its else block is running and the loop breaks after it.
IfFrame(executed, final) ==
    [fn |-> "parseIfStatement", braceCount |-> 0, executed |-> executed, final |-> final]

Top == stack[Len(stack)]
Pop == SubSeq(stack, 1, Len(stack) - 1)

\* The condition of parseAndExecute's execution loop.
MainLoopCondition ==
    /\ currentToken < size
    /\ currentToken <= mainEnd
    /\ Tok(currentToken).type # "END_OF_FILE"

InMainLoop == pc = "exec" /\ stack = << >> /\ MainLoopCondition

\* The condition of parseBlock's loop, and the braceCount after the two
\* brace tests at its head.
InBlockLoop ==
    /\ pc = "exec" /\ stack # << >> /\ Top.fn = "parseBlock"
    /\ currentToken < size /\ Top.braceCount > 0

blockBraceCount ==
    IF Tok(currentToken).value = <<"{">> THEN Top.braceCount + 1
    ELSE IF Tok(currentToken).value = <<"}">> THEN Top.braceCount - 1
    ELSE Top.braceCount

isTypeKeyword(t) ==
    t.type = "KEYWORD" /\ t.value \in {T_int, T_float, T_bool, T_string}

isKeyword(t, text) == t.type = "KEYWORD" /\ t.value = text

\* An exception nothing catches: std::terminate, abort().  Whether the
\* runtime prints a message first is up to the C++ runtime.
Throw ==
    /\ pc' = "exit"
    /\ exitCode' = AbortStatus
    /\ \E printed \in BOOLEAN : err' = IF printed THEN Append(err, ErrTerminate) ELSE err

\* parseAndExecute returns, runFile returns, main returns 0.
ReturnFromMain ==
    /\ pc' = "exit"
    /\ exitCode' = 0

-----------------------------------------------------------------------------
(* parseIfStatement, up to the point where it calls parseBlock or enters   *)
(* its else loop.                                                          *)

\* parseIfStatement after its condition.  "parseBlock": the condition held
\* and the block is entered at cur; "chain": the block was skipped, the
\* else loop is next; "return": one of the nested tests failed and the
\* function returns; "throw".
ifAfterCondition(cond) ==
    IF cond.threw THEN [to |-> "throw", cur |-> cond.cur]
    ELSE IF ValueIs(cond.cur, <<")">>)
    THEN IF ValueIs(cond.cur + 1, <<"{">>)
         THEN IF cond.result
              THEN [to |-> "parseBlock", cur |-> cond.cur + 2]
              ELSE [to |-> "chain", cur |-> skipBlock(cond.cur + 2)]
         ELSE [to |-> "return", cur |-> cond.cur + 1]
    ELSE [to |-> "return", cur |-> cond.cur]

\* The first part of parseIfStatement, from the `if` at cur.
ifHead(cur) ==
    IF ValueIs(cur + 1, <<"(">>)
    THEN The({ ifAfterCondition(condition) : condition \in { evaluateCondition(cur + 2) } })
    ELSE [to |-> "return", cur |-> cur + 1]

\* A variant of elseIfAfterCondition that leaves the executed flag out of the
\* test: every else-if whose condition holds runs its block.
elseIfAfterConditionAlways(cond, executed) ==
    IF cond.threw THEN [to |-> "throw", cur |-> cond.cur]
    ELSE IF ValueIs(cond.cur, <<")">>)
    THEN IF ValueIs(cond.cur + 1, <<"{">>)
         THEN IF cond.result
              THEN [to |-> "parseBlock", cur |-> cond.cur + 2]
              ELSE [to |-> "skip", cur |-> skipBlock(cond.cur + 2)]
         ELSE [to |-> "skip", cur |-> cond.cur + 1]
    ELSE [to |-> "skip", cur |-> cond.cur]

\* The `else if` branch of the else loop after its condition, with the
\* executed flag: "parseBlock", "skip" (block skipped or a test failed; the
\* loop goes on), "throw".
elseIfAfterCondition(cond, executed) ==
    IF cond.threw THEN [to |-> "throw", cur |-> cond.cur]
    ELSE IF ValueIs(cond.cur, <<")">>)
    THEN IF ValueIs(cond.cur + 1, <<"{">>)
         THEN IF ~executed /\ cond.result
              THEN [to |-> "parseBlock", cur |-> cond.cur + 2]
              ELSE [to |-> "skip", cur |-> skipBlock(cond.cur + 2)]
         ELSE [to |-> "skip", cur |-> cond.cur + 1]
    ELSE [to |-> "skip", cur |-> cond.cur]

\* The `else if` branch, from the `if` at cur.
elseIfBranch(cur, executed) ==
    IF ValueIs(cur + 1, <<"(">>)
    THEN The({ elseIfAfterCondition(elseIfCondition, executed) :
                  elseIfCondition \in { evaluateCondition(cur + 2) } })
    ELSE [to |-> "skip", cur |-> cur + 1]

\* The call of parseIfStatement from a caller whose stack is base, h being
\* where its first part goes.  The executed flag is set when the block
\* returns; nothing reads it before, so the frame holds TRUE from the call on.
EnterIf(base, h) ==
    /\ currentToken' = h.cur
    /\ UNCHANGED << code, tokens, variables, functions, mainStart, mainEnd, out >>
    /\ IF h.to = "throw"
       THEN Throw /\ stack' = base
       ELSE /\ UNCHANGED << pc, exitCode, err >>
            /\ stack' = IF h.to = "parseBlock"
                        THEN base \o << IfFrame(TRUE, FALSE), BlockFrame(1) >>
                        ELSE IF h.to = "chain"
                        THEN base \o << IfFrame(FALSE, FALSE) >>
                        ELSE base

CallIfStatement(base) == \E h \in { ifHead(currentToken) } : EnterIf(base, h)

\* The else-if branch taken from the else loop, b being where it goes.
EnterElseIf(b) ==
    /\ currentToken' = b.cur
    /\ UNCHANGED << code, tokens, variables, functions, mainStart, mainEnd, out >>
    /\ IF b.to = "throw"
       THEN Throw /\ UNCHANGED stack
       ELSE /\ UNCHANGED << pc, exitCode, err >>
            /\ stack' = IF b.to = "parseBlock"
                        THEN Pop \o << IfFrame(TRUE, FALSE), BlockFrame(1) >>
                        ELSE stack

\* The call of parseStatement from a caller whose stack stays as it is.
StatementDone(st) ==
    /\ currentToken' = st.cur
    /\ out' = out \o st.output
    /\ UNCHANGED << code, tokens, variables, functions, mainStart, mainEnd, stack >>
    /\ IF st.threw THEN Throw ELSE UNCHANGED << pc, exitCode, err >>

CallStatement == StatementDone(parseStatement(currentToken))

VariableDeclarationDone(d) ==
    /\ currentToken' = d.cur
    /\ variables' = d.variables
    /\ UNCHANGED << code, tokens, functions, mainStart, mainEnd, stack, out, err, pc, exitCode >>

CallVariableDeclaration == VariableDeclarationDone(parseVariableDeclaration(currentToken))

FunctionDeclarationDone(d) ==
    /\ currentToken' = d.cur
    /\ functions' = d.functions
    /\ UNCHANGED << code, tokens, variables, mainStart, mainEnd, stack, out, err, pc, exitCode >>

CallFunctionDeclaration == FunctionDeclarationDone(parseFunctionDeclaration(currentToken))

IncludeDone(inc) ==
    /\ currentToken' = inc.cur
    /\ out' = out \o inc.output
    /\ UNCHANGED << code, tokens, variables, functions, mainStart, mainEnd, stack, err, pc, exitCode >>

CallInclude == IncludeDone(parseInclude(currentToken))

-----------------------------------------------------------------------------
(* The source texts of the runs.                                           *)

(* Pieces of source text, named by what they spell.                        *)

\* `void main() {\n`
Src_VoidMain == <<"v", "o", "i", "d", " ", "m", "a", "i", "n", "(", ")", " ", "{", "\n">>
\* `int main() {\n`
Src_IntMain == <<"i", "n", "t", " ", "m", "a", "i", "n", "(", ")", " ", "{", "\n">>
\* `void main {\n`
Src_VoidMainNoParen == <<"v", "o", "i", "d", " ", "m", "a", "i", "n", " ", "{", "\n">>
\* `float main() {\n`
Src_FloatMain == <<"f", "l", "o", "a", "t", " ", "m", "a", "i", "n", "(", ")", " ", "{", "\n">>
\* `main() {\n`
Src_BareMain == <<"m", "a", "i", "n", "(", ")", " ", "{", "\n">>
\* `}\n`
Src_Close == <<"}", "\n">>
\* `if (`
Src_IfOpen == <<"i", "f", " ", "(">>
\* `else if (`
Src_ElseIfOpen == <<"e", "l", "s", "e", " ", "i", "f", " ", "(">>
\* `) {\n`
Src_CondClose == <<")", " ", "{", "\n">>
\* `else {\n`
Src_ElseOpen == <<"e", "l", "s", "e", " ", "{", "\n">>

(* Text before the entry block.                                            *)

\* `int g;\n`
Pre_Declaration == <<"i", "n", "t", " ", "g", ";", "\n">>
\* `\ncrym("x");\n`
Pre_Crym == <<"\n", "c", "r", "y", "m", "(", "\"", "x", "\"", ")", ";", "\n">>
\* `void f() { }\n`
Pre_Function == <<"v", "o", "i", "d", " ", "f", "(", ")", " ", "{", " ", "}", "\n">>

(* Text after the entry block's last statement.                            *)

\* `}\n\nSleep(1);\n`
Suf_SleepAfter == <<"}", "\n", "\n", "S", "l", "e", "e", "p", "(", "1", ")", ";", "\n">>
\* `}\nint y;\n`
Suf_DeclarationAfter == <<"}", "\n", "i", "n", "t", " ", "y", ";", "\n">>
\* `} }\n`
Suf_ExtraClose == <<"}", " ", "}", "\n">>

(* Statements.                                                             *)

\* `crym("A");\n`
St_CrymA == <<"c", "r", "y", "m", "(", "\"", "A", "\"", ")", ";", "\n">>
\* `crym("B");\n`
St_CrymB == <<"c", "r", "y", "m", "(", "\"", "B", "\"", ")", ";", "\n">>
\* `int k;\n`
St_DeclK == <<"i", "n", "t", " ", "k", ";", "\n">>
\* `Sleep(n);\n`
St_SleepUnbound == <<"S", "l", "e", "e", "p", "(", "n", ")", ";", "\n">>
\* `Sleep("5");\n`
St_SleepString == <<"S", "l", "e", "e", "p", "(", "\"", "5", "\"", ")", ";", "\n">>
\* `Sleep(1);\n`
St_SleepOne == <<"S", "l", "e", "e", "p", "(", "1", ")", ";", "\n">>
\* `if (a < 1) {\ncrym("T"); }\n`
St_IfUnboundLess == <<"i", "f", " ", "(", "a", " ", "<", " ", "1", ")", " ", "{", "\n", "c", "r", "y", "m", "(", "\"", "T", "\"", ")", ";", " ", "}", "\n">>
\* `inp("p");\n`
St_Inp == <<"i", "n", "p", "(", "\"", "p", "\"", ")", ";", "\n">>
\* `if (1) {\nf( } } ) g();\n`
St_CallEatsBraces == <<"i", "f", " ", "(", "1", ")", " ", "{", "\n", "f", "(", " ", "}", " ", "}", " ", ")", " ", "g", "(", ")", ";", "\n">>
\* `crym("U"\n`
St_CrymUnclosed == <<"c", "r", "y", "m", "(", "\"", "U", "\"", "\n">>
\* `void g() { crym("G"); }\n`
St_FunctionG == <<"v", "o", "i", "d", " ", "g", "(", ")", " ", "{", " ", "c", "r", "y", "m", "(", "\"", "G", "\"", ")", ";", " ", "}", "\n">>
\* `g();\n`
St_CallG == <<"g", "(", ")", ";", "\n">>
\* `void h( {\n`
St_FunctionUnclosed == <<"v", "o", "i", "d", " ", "h", "(", " ", "{", "\n">>
\* `#include\n`
St_Include == <<"#", "i", "n", "c", "l", "u", "d", "e", "\n">>
\* `// note\n`
St_Comment == <<"/", "/", " ", "n", "o", "t", "e", "\n">>
\* `int v = 7\ncrym(v);\n`
St_DeclInit == <<"i", "n", "t", " ", "v", " ", "=", " ", "7", "\n", "c", "r", "y", "m", "(", "v", ")", ";", "\n">>
\* `if (0) { } else ;\nelse { crym("E"); }\n`
St_ElseAlone == <<"i", "f", " ", "(", "0", ")", " ", "{", " ", "}", " ", "e", "l", "s", "e", " ", ";", "\n", "e", "l", "s", "e", " ", "{", " ", "c", "r", "y", "m", "(", "\"", "E", "\"", ")", ";", " ", "}", "\n">>

(* Conditions.                                                             *)

\* `1`
Cond_One == <<"1">>
\* `0`
Cond_Zero == <<"0">>
\* `1 > 2`
Cond_Greater == <<"1", " ", ">", " ", "2">>
\* `1 < 2`
Cond_Less == <<"1", " ", "<", " ", "2">>
\* `"1.0" == "1"`
Cond_TextEqual == <<"\"", "1", ".", "0", "\"", " ", "=", "=", " ", "\"", "1", "\"">>
\* `x != 1`
Cond_UnboundNotEqual == <<"x", " ", "!", "=", " ", "1">>
\* `false`
Cond_False == <<"f", "a", "l", "s", "e">>
\* `2 >= 2.0`
Cond_GreaterEqual == <<"2", " ", ">", "=", " ", "2", ".", "0">>
\* `10 <= 9.5`
Cond_LessEqual == <<"1", "0", " ", "<", "=", " ", "9", ".", "5">>
\* `a < 1`
Cond_UnboundLess == <<"a", " ", "<", " ", "1">>
\* `"a" < 1`
Cond_StringLess == <<"\"", "a", "\"", " ", "<", " ", "1">>
\* `true < 1`
Cond_KeywordLess == <<"t", "r", "u", "e", " ", "<", " ", "1">>
\* `1 <`
Cond_EmptyRight == <<"1", " ", "<">>
\* `. < 1`
Cond_DotLess == <<".", " ", "<", " ", "1">>
\* `1.2.3 < 2`
Cond_MalformedLess == <<"1", ".", "2", ".", "3", " ", "<", " ", "2">>
\* `1 > inf`
Cond_InfLess == <<"1", " ", ">", " ", "i", "n", "f">>
\* `1 == 2 && 3 == 3`
Cond_AndFalse == <<"1", " ", "=", "=", " ", "2", " ", "&", "&", " ", "3", " ", "=", "=", " ", "3">>
\* `0 || 1`
Cond_OrFalse == <<"0", " ", "|", "|", " ", "1">>

(* Blocks of the branches of an if chain, by position, and of its else.    *)

\* `crym("A");\n`
Blk_A == <<"c", "r", "y", "m", "(", "\"", "A", "\"", ")", ";", "\n">>
\* `if (1) { crym("N"); }\nelse { crym("M"); }\ncrym("B");\n`
Blk_B == <<"i", "f", " ", "(", "1", ")", " ", "{", " ", "c", "r", "y", "m", "(", "\"", "N", "\"", ")", ";", " ", "}", "\n", "e", "l", "s", "e", " ", "{", " ", "c", "r", "y", "m", "(", "\"", "M", "\"", ")", ";", " ", "}", "\n", "c", "r", "y", "m", "(", "\"", "B", "\"", ")", ";", "\n">>
\* `int c;\ncrym("C");\n`
Blk_C == <<"i", "n", "t", " ", "c", ";", "\n", "c", "r", "y", "m", "(", "\"", "C", "\"", ")", ";", "\n">>
\* `crym("D");\n`
Blk_D == <<"c", "r", "y", "m", "(", "\"", "D", "\"", ")", ";", "\n">>
\* `crym("E");\n`
Blk_Else == <<"c", "r", "y", "m", "(", "\"", "E", "\"", ")", ";", "\n">>
\* `int q;\ncrym("A");\n`
Blk_Q == <<"i", "n", "t", " ", "q", ";", "\n", "c", "r", "y", "m", "(", "\"", "A", "\"", ")", ";", "\n">>

(* Declarations without initialiser, and what may precede them.            *)

\* `int x`
Decl_Int == <<"i", "n", "t", " ", "x">>
\* `float x`
Decl_Float == <<"f", "l", "o", "a", "t", " ", "x">>
\* `bool x`
Decl_Bool == <<"b", "o", "o", "l", " ", "x">>
\* `string x`
Decl_String == <<"s", "t", "r", "i", "n", "g", " ", "x">>
\* `;\n`
End_Semicolon == <<";", "\n">>
\* `\n`
End_Newline == <<"\n">>
\* ` ==\n`
End_OtherToken == <<" ", "=", "=", "\n">>
\* ``
Before_Nothing == <<>>
\* `string x = "q";\n`
Before_StringX == <<"s", "t", "r", "i", "n", "g", " ", "x", " ", "=", " ", "\"", "q", "\"", ";", "\n">>
\* `int x = 5;\n`
Before_IntX == <<"i", "n", "t", " ", "x", " ", "=", " ", "5", ";", "\n">>
\* `crym(x);\n`
Src_CrymX == <<"c", "r", "y", "m", "(", "x", ")", ";", "\n">>
\* `if (1) {\n`
Src_IfOneOpen == <<"i", "f", " ", "(", "1", ")", " ", "{", "\n">>

RECURSIVE Flatten(_)
Flatten(texts) == IF texts = << >> THEN << >> ELSE Head(texts) \o Flatten(Tail(texts))

\* The sequences over S of length lo .. hi.
SeqsOf(S, lo, hi) == UNION { [1 .. k -> S] : k \in lo .. hi }

\* The bounds of the source texts.
MaxStatements == 2
MaxElseIf == 1

(* Programs about the entry block: what stands before main, the header of  *)
(* main, and what ends it.                                                 *)

Prefixes == { << >>, Pre_Declaration, Pre_Crym, Pre_Function }
Headers == { Src_VoidMain, Src_IntMain, Src_VoidMainNoParen, Src_FloatMain, Src_BareMain, << >> }
EntryBodies == { St_CrymA \o St_DeclK, St_FunctionG \o St_CallG }
Suffixes == { Src_Close, << >>, Suf_SleepAfter, Suf_DeclarationAfter, Suf_ExtraClose }

EntryPrograms ==
    { pre \o head \o body \o suf :
        pre \in Prefixes, head \in Headers, body \in EntryBodies, suf \in Suffixes }

(* Programs that are a main of up to MaxStatements statements.             *)

Statements ==
    { St_CrymA, St_CrymB, St_DeclK, St_SleepUnbound, St_SleepString, St_SleepOne,
      St_IfUnboundLess, St_Inp, St_CallEatsBraces, St_CrymUnclosed, St_FunctionG,
      St_CallG, St_FunctionUnclosed, St_Include, St_Comment, St_DeclInit,
      St_ElseAlone }

StatementProgram(sts) == Src_VoidMain \o Flatten(sts) \o Src_Close

StatementPrograms ==
    { StatementProgram(sts) : sts \in SeqsOf(Statements, 0, MaxStatements) }

(* Programs that are a main of one if chain: if, up to MaxElseIf else-if,  *)
(* and an else or none.                                                    *)

IfStatement(cond, block) ==
    Src_IfOpen \o cond \o Src_CondClose \o block \o Src_Close

BranchBlocks == << Blk_A, Blk_B, Blk_C, Blk_D >>

RECURSIVE ElseIfs(_, _)
ElseIfs(conds, i) ==
    IF i > Len(conds) THEN << >>
    ELSE Src_ElseIfOpen \o conds[i] \o Src_CondClose \o BranchBlocks[i] \o Src_Close
         \o ElseIfs(conds, i + 1)

ChainProgram(conds, withElse) ==
    Src_VoidMain
    \o IfStatement(conds[1], BranchBlocks[1])
    \o ElseIfs(conds, 2)
    \o (IF withElse THEN Src_ElseOpen \o Blk_Else \o Src_Close ELSE << >>)
    \o Src_Close

ChainConditions ==
    { Cond_One, Cond_Zero, Cond_Greater, Cond_Less, Cond_TextEqual, Cond_UnboundLess }

ChainPrograms ==
    { ChainProgram(conds, withElse) :
        conds \in SeqsOf(ChainConditions, 1, 1 + MaxElseIf), withElse \in BOOLEAN }

(* Programs that are a main of one if without else, over every condition.  *)

Conditions ==
    { Cond_One, Cond_Zero, Cond_Greater, Cond_Less, Cond_TextEqual,
      Cond_UnboundNotEqual, Cond_False, Cond_GreaterEqual, Cond_LessEqual,
      Cond_UnboundLess, Cond_StringLess, Cond_KeywordLess, Cond_EmptyRight,
      Cond_DotLess, Cond_MalformedLess, Cond_InfLess, Cond_AndFalse, Cond_OrFalse }

IfProgram(cond) == Src_VoidMain \o IfStatement(cond, Blk_Q) \o St_CrymB \o Src_Close

IfPrograms == { IfProgram(cond) : cond \in Conditions }

(* Programs that declare x without initialiser and print it, in main or in *)
(* a block, after an earlier binding of x or none.                         *)

DeclarationProgram(before, decl, end, inBlock) ==
    Src_VoidMain \o before
    \o (IF inBlock THEN Src_IfOneOpen ELSE << >>)
    \o decl \o end \o Src_CrymX
    \o (IF inBlock THEN Src_Close ELSE << >>)
    \o Src_Close

Declarations == { Decl_Int, Decl_Float, Decl_Bool, Decl_String }
DeclarationEnds == { End_Semicolon, End_Newline, End_OtherToken }
Befores == { Before_Nothing, Before_StringX, Before_IntX }

DeclarationPrograms ==
    { DeclarationProgram(before, decl, end, inBlock) :
        before \in Befores, decl \in Declarations, end \in DeclarationEnds,
        inBlock \in BOOLEAN }

(* Programs that bind n to 1 and branch on one equality or inequality of   *)
(* two operands.                                                           *)

\* `int n = 1;\n`
Src_DeclN == <<"i", "n", "t", " ", "n", " ", "=", " ", "1", ";", "\n">>
\* `) {\ncrym("eq");\n} else {\ncrym("neq");\n}\n`
Src_ThenEq == <<")", " ", "{", "\n", "c", "r", "y", "m", "(", "\"", "e", "q", "\"", ")", ";", "\n", "}", " ", "e", "l", "s", "e", " ", "{", "\n", "c", "r", "y", "m", "(", "\"", "n", "e", "q", "\"", ")", ";", "\n", "}", "\n">>
\* `1`
Opd_One == <<"1">>
\* `1.0`
Opd_OneFloat == <<"1", ".", "0">>
\* `"1"`
Opd_TextOne == <<"\"", "1", "\"">>
\* `n`
Opd_BoundN == <<"n">>
\* `x`
Opd_Unbound == <<"x">>
\* `true`
Opd_True == <<"t", "r", "u", "e">>
\* ` == `
Op_Equal == <<" ", "=", "=", " ">>
\* ` != `
Op_NotEqual == <<" ", "!", "=", " ">>

EqualityProgram(left, op, right) ==
    Src_VoidMain \o Src_DeclN \o Src_IfOpen \o left \o op \o right \o Src_ThenEq \o Src_Close

Operands == { Opd_One, Opd_OneFloat, Opd_TextOne, Opd_BoundN, Opd_Unbound, Opd_True }
EqualityOperators == { Op_Equal, Op_NotEqual }

EqualityPrograms ==
    { EqualityProgram(left, op, right) :
        left \in Operands, op \in EqualityOperators, right \in Operands }

(* Programs whose main holds an include line and prints A.                 *)

\* `#include <io>\n`
Inc_Io == <<"#", "i", "n", "c", "l", "u", "d", "e", " ", "<", "i", "o", ">", "\n">>
\* `#include<io>\n`
Inc_IoTight == <<"#", "i", "n", "c", "l", "u", "d", "e", "<", "i", "o", ">", "\n">>

IncludeProgram(inc) == Src_VoidMain \o inc \o St_CrymA \o Src_Close

Includes == { Inc_Io, Inc_IoTight }

IncludePrograms == { IncludeProgram(inc) : inc \in Includes }

(* Programs that declare g, or nothing, before or after up to MaxCalls     *)
(* calls of g and h.                                                       *)

\* `void g() { crym("G");\nint b = 2; }\n`
Fn_G == <<"v", "o", "i", "d", " ", "g", "(", ")", " ", "{", " ", "c", "r", "y", "m", "(", "\"", "G", "\"", ")", ";", "\n", "i", "n", "t", " ", "b", " ", "=", " ", "2", ";", " ", "}", "\n">>
\* `void g(int a) {\nif (1) { crym("G"); }\nint b = 2; }\n`
Fn_GNested == <<"v", "o", "i", "d", " ", "g", "(", "i", "n", "t", " ", "a", ")", " ", "{", "\n", "i", "f", " ", "(", "1", ")", " ", "{", " ", "c", "r", "y", "m", "(", "\"", "G", "\"", ")", ";", " ", "}", "\n", "i", "n", "t", " ", "b", " ", "=", " ", "2", ";", " ", "}", "\n">>
\* `if (1) {\nvoid g() { crym("G");\nint b; }\n}\n`
Fn_GInBlock == <<"i", "f", " ", "(", "1", ")", " ", "{", "\n", "v", "o", "i", "d", " ", "g", "(", ")", " ", "{", " ", "c", "r", "y", "m", "(", "\"", "G", "\"", ")", ";", "\n", "i", "n", "t", " ", "b", ";", " ", "}", "\n", "}", "\n">>
\* `g();\n`
Call_G == <<"g", "(", ")", ";", "\n">>
\* `g(3);\n`
Call_GArg == <<"g", "(", "3", ")", ";", "\n">>
\* `h();\n`
Call_H == <<"h", "(", ")", ";", "\n">>

MaxCalls == 2

FunctionProgram(decl, calls, declFirst) ==
    Src_VoidMain
    \o (IF declFirst THEN decl \o Flatten(calls) ELSE Flatten(calls) \o decl)
    \o Src_Close

FunctionDeclarations == { Fn_G, Fn_GNested, Fn_GInBlock, << >> }
Calls == { Call_G, Call_GArg, Call_H }

FunctionPrograms ==
    { FunctionProgram(decl, calls, declFirst) :
        decl \in FunctionDeclarations, calls \in SeqsOf(Calls, 0, MaxCalls),
        declFirst \in BOOLEAN }

(* Programs that declare x inside nested blocks that run, after an earlier *)
(* binding of x or none, and print x after the blocks.                     *)

\* `if (0) {\n} else {\n`
Nest_ElseOpen == <<"i", "f", " ", "(", "0", ")", " ", "{", "\n", "}", " ", "e", "l", "s", "e", " ", "{", "\n">>
\* `if (0) {\n} else if (1) {\n`
Nest_ElseIfOpen == <<"i", "f", " ", "(", "0", ")", " ", "{", "\n", "}", " ", "e", "l", "s", "e", " ", "i", "f", " ", "(", "1", ")", " ", "{", "\n">>
\* `int x = 7;\n`
Scope_DeclInit == <<"i", "n", "t", " ", "x", " ", "=", " ", "7", ";", "\n">>
\* `string x = "in";\n`
Scope_DeclText == <<"s", "t", "r", "i", "n", "g", " ", "x", " ", "=", " ", "\"", "i", "n", "\"", ";", "\n">>
\* `bool x\n`
Scope_DeclDefault == <<"b", "o", "o", "l", " ", "x", "\n">>

\* The blocks around the declaration: what opens them and what closes them.
Nestings ==
    { [open |-> Src_IfOneOpen,                     close |-> Src_Close],
      [open |-> Nest_ElseOpen,                     close |-> Src_Close],
      [open |-> Nest_ElseIfOpen,                   close |-> Src_Close],
      [open |-> Src_IfOneOpen \o Nest_ElseOpen,    close |-> Src_Close \o Src_Close],
      [open |-> Nest_ElseIfOpen \o Src_IfOneOpen,  close |-> Src_Close \o Src_Close] }

ScopeProgram(before, nest, decl) ==
    Src_VoidMain \o before \o nest.open \o decl \o nest.close \o Src_CrymX \o Src_Close

ScopeDeclarations == { Scope_DeclInit, Scope_DeclText, Scope_DeclDefault }

ScopePrograms ==
    { ScopeProgram(before, nest, decl) :
        before \in Befores, nest \in Nestings, decl \in ScopeDeclarations }

(* Programs of one call of crym, with s and n bound before it or not.      *)

\* `string s = "hi";\nint n = 7;\n`
Crym_Bindings == <<"s", "t", "r", "i", "n", "g", " ", "s", " ", "=", " ", "\"", "h", "i", "\"", ";", "\n", "i", "n", "t", " ", "n", " ", "=", " ", "7", ";", "\n">>
\* `crym(`
Crym_Open == <<"c", "r", "y", "m", "(">>
\* `);\n`
Crym_Close == <<")", ";", "\n">>
\* `"A"`
Arg_Text == <<"\"", "A", "\"">>
\* `"a b"`
Arg_Spaced == <<"\"", "a", " ", "b", "\"">>
\* `""`
Arg_EmptyText == <<"\"", "\"">>
\* `42`
Arg_Integer == <<"4", "2">>
\* `1.5`
Arg_Decimal == <<"1", ".", "5">>
\* `s`
Arg_S == <<"s">>
\* `n`
Arg_N == <<"n">>
\* `"A", "B"`
Arg_TwoTexts == <<"\"", "A", "\"", ",", " ", "\"", "B", "\"">>
\* `n, "z"`
Arg_NThenText == <<"n", ",", " ", "\"", "z", "\"">>
\* `"z" s`
Arg_TextThenS == <<"\"", "z", "\"", " ", "s">>

Arg_None == << >>

CrymProgram(bindings, args) ==
    Src_VoidMain \o bindings \o Crym_Open \o args \o Crym_Close \o Src_Close

CrymBindings == { << >>, Crym_Bindings }

CrymArguments ==
    { Arg_None, Arg_Text, Arg_Spaced, Arg_EmptyText, Arg_Integer, Arg_Decimal,
      Arg_S, Arg_N, Arg_TwoTexts, Arg_NThenText, Arg_TextThenS }

CrymPrograms ==
    { CrymProgram(bindings, args) : bindings \in CrymBindings, args \in CrymArguments }

(* Programs of one declaration of x with an initialiser, then crym(y) and  *)
(* crym(x).                                                                *)

\* `int x = `
Rhs_Open == <<"i", "n", "t", " ", "x", " ", "=", " ">>
\* `\ncrym(y);\ncrym(x);\n`
Rhs_Tail == <<"\n", "c", "r", "y", "m", "(", "y", ")", ";", "\n", "c", "r", "y", "m", "(", "x", ")", ";", "\n">>
\* `crym("p");\n`
Rhs_Lead == <<"c", "r", "y", "m", "(", "\"", "p", "\"", ")", ";", "\n">>
\* `int y = 3;`
Rhs_Declaration == <<"i", "n", "t", " ", "y", " ", "=", " ", "3", ";">>
\* `;`
Rhs_Semicolon == <<";">>
\* `< 3;`
Rhs_Operator == <<"<", " ", "3", ";">>
\* `// c`
Rhs_Comment == <<"/", "/", " ", "c">>
\* `( 3 );`
Rhs_Paren == <<"(", " ", "3", " ", ")", ";">>
\* `"s";`
Rhs_Text == <<"\"", "s", "\"", ";">>
\* `4;`
Rhs_Number == <<"4", ";">>
\* `z;`
Rhs_Name == <<"z", ";">>
\* `true;`
Rhs_True == <<"t", "r", "u", "e", ";">>

InitialiserProgram(lead, rhs) ==
    Src_VoidMain \o lead \o Rhs_Open \o rhs \o Rhs_Tail \o Src_Close

\* Initialisers that begin with a value, with a type keyword, and (after a
\* leading statement) with a delimiter, an operator or a comment.
InitialiserPrograms ==
    { InitialiserProgram(<< >>, rhs) :
        rhs \in { Rhs_Text, Rhs_Number, Rhs_Name, Rhs_True, Rhs_Declaration } }
    \cup { InitialiserProgram(Rhs_Lead, rhs) :
             rhs \in { Rhs_Semicolon, Rhs_Operator, Rhs_Comment, Rhs_Paren } }

(* Programs whose if, else-if or else block is skipped, the block holding  *)
(* a declaration, a function declaration, a call and an if chain; and a    *)
(* text whose skipped block is not closed.                                 *)

\* `if (0) {\n`
Skip_IfZeroOpen == <<"i", "f", " ", "(", "0", ")", " ", "{", "\n">>
\* `if (1) {\n} else {\n`
Skip_ElseOpen == <<"i", "f", " ", "(", "1", ")", " ", "{", "\n", "}", " ", "e", "l", "s", "e", " ", "{", "\n">>
\* `if (1) {\n} else if (1) {\n`
Skip_ElseIfOpen == <<"i", "f", " ", "(", "1", ")", " ", "{", "\n", "}", " ", "e", "l", "s", "e", " ", "i", "f", " ", "(", "1", ")", " ", "{", "\n">>
\* `int v = 1;\nvoid g() { }\nif (1) { crym("S"); }\n`
Skip_Body == <<"i", "n", "t", " ", "v", " ", "=", " ", "1", ";", "\n", "v", "o", "i", "d", " ", "g", "(", ")", " ", "{", " ", "}", "\n", "i", "f", " ", "(", "1", ")", " ", "{", " ", "c", "r", "y", "m", "(", "\"", "S", "\"", ")", ";", " ", "}", "\n">>
\* `}\ncrym(v);\ng();\n`
Skip_Tail == <<"}", "\n", "c", "r", "y", "m", "(", "v", ")", ";", "\n", "g", "(", ")", ";", "\n">>
\* `int main {\nif (0) {\nmain() {\n}\n`
Skip_Unmatched == <<"i", "n", "t", " ", "m", "a", "i", "n", " ", "{", "\n", "i", "f", " ", "(", "0", ")", " ", "{", "\n", "m", "a", "i", "n", "(", ")", " ", "{", "\n", "}", "\n">>

SkipProgram(open) == Src_VoidMain \o open \o Skip_Body \o Skip_Tail \o Src_Close

SkipPrograms ==
    { SkipProgram(open) : open \in { Skip_IfZeroOpen, Skip_ElseOpen, Skip_ElseIfOpen } }
    \cup { Skip_Unmatched }

(* Programs with directives and declarations before the entry block, and  *)
(* a main that names what they declare.                                    *)

\* `#include <io>\n`
Top_Include == <<"#", "i", "n", "c", "l", "u", "d", "e", " ", "<", "i", "o", ">", "\n">>
\* `int x = 5;\n`
Top_Variable == <<"i", "n", "t", " ", "x", " ", "=", " ", "5", ";", "\n">>
\* `void g() { }\n`
Top_Function == <<"v", "o", "i", "d", " ", "g", "(", ")", " ", "{", " ", "}", "\n">>
\* `crym(x);\ng();\n`
Top_Body == <<"c", "r", "y", "m", "(", "x", ")", ";", "\n", "g", "(", ")", ";", "\n">>

TopLevelProgram(pre, head) == pre \o head \o Top_Body \o Src_Close

TopLevelPrograms ==
    { TopLevelProgram(pre, head) :
        pre \in { Top_Include, Top_Variable, Top_Function,
                  Top_Include \o Top_Variable \o Top_Function },
        head \in { Src_VoidMain, Src_IntMain } }

Programs ==
    EntryPrograms \cup StatementPrograms \cup ChainPrograms \cup IfPrograms
    \cup DeclarationPrograms \cup EqualityPrograms \cup IncludePrograms
    \cup FunctionPrograms \cup ScopePrograms \cup CrymPrograms
    \cup InitialiserPrograms \cup SkipPrograms \cup TopLevelPrograms

-----------------------------------------------------------------------------
(* The run.                                                                *)

\* A constructed interpreter and the text of the source file.
Init ==
    /\ code \in Programs
    /\ tokens = << >>
    /\ currentToken = 0
    /\ variables = EmptyMap
    /\ functions = EmptyMap
    /\ mainStart = 0
    /\ mainEnd = 0
    /\ stack = << >>
    /\ out = << >>
    /\ err = << >>
    /\ pc = "runFile"
    /\ exitCode = 0

\* runFile: tokenize the text; parseAndExecute takes the tokens.
RunFile ==
    /\ pc = "runFile"
    /\ tokens' = tokenize(code)
    /\ currentToken' = 0
    /\ pc' = "findMain"
    /\ UNCHANGED << code, variables, functions, mainStart, mainEnd, stack, out, err, exitCode >>

\* "Look for main function": found.
FindMain ==
    /\ pc = "findMain"
    /\ hasMainFunction
    /\ mainStart' = findMainStart
    /\ pc' = "findMainEnd"
    /\ UNCHANGED << code, tokens, currentToken, variables, functions, mainEnd, stack, out, err, exitCode >>

\* "Look for main function": none; the error, and the return.
NoMainFunction ==
    /\ pc = "findMain"
    /\ ~hasMainFunction
    /\ err' = Append(err, ErrNoMain)
    /\ ReturnFromMain
    /\ UNCHANGED << code, tokens, currentToken, variables, functions, mainStart, mainEnd, stack, out >>

\* "Find main function boundaries": mainEnd assigned.
FindMainEnd ==
    /\ pc = "findMainEnd"
    /\ findMainEnd(mainStart) # 0
    /\ mainEnd' = findMainEnd(mainStart)
    /\ pc' = "checkOutside"
    /\ UNCHANGED << code, tokens, currentToken, variables, functions, mainStart, stack, out, err, exitCode >>

\* "Find main function boundaries": mainEnd still 0; the error, and the return.
MainNotClosed ==
    /\ pc = "findMainEnd"
    /\ findMainEnd(mainStart) = 0
    /\ err' = Append(err, ErrNotClosed)
    /\ ReturnFromMain
    /\ UNCHANGED << code, tokens, currentToken, variables, functions, mainStart, mainEnd, stack, out >>

\* "Check for code outside main function": an intrinsic name outside; the
\* error with its line, and the return.
CodeOutsideMain ==
    /\ pc = "checkOutside"
    /\ \E i \in 0 .. (size - 1) : isOutsideMain(i, mainStart, mainEnd)
    /\ err' = Append(err, ErrOutsideMain(Tok(firstOutsideMain(mainStart, mainEnd)).line))
    /\ ReturnFromMain
    /\ UNCHANGED << code, tokens, currentToken, variables, functions, mainStart, mainEnd, stack, out >>

\* A variant of StartExecution that leaves the cursor where the validation
\* found it, at the first token.
StartExecutionAtFirstToken ==
    /\ pc = "checkOutside"
    /\ ~\E i \in 0 .. (size - 1) : isOutsideMain(i, mainStart, mainEnd)
    /\ currentToken' = 0
    /\ pc' = "exec"
    /\ UNCHANGED << code, tokens, variables, functions, mainStart, mainEnd, stack, out, err, exitCode >>

\* The check passes: "Reset current token to start of main function".
StartExecution ==
    /\ pc = "checkOutside"
    /\ ~\E i \in 0 .. (size - 1) : isOutsideMain(i, mainStart, mainEnd)
    /\ currentToken' = mainStart
    /\ pc' = "exec"
    /\ UNCHANGED << code, tokens, variables, functions, mainStart, mainEnd, stack, out, err, exitCode >>

(* The execution loop of parseAndExecute, one iteration per step.          *)

MainLoopComment ==
    /\ InMainLoop
    /\ Tok(currentToken).type = "COMMENT"
    /\ currentToken' = currentToken + 1
    /\ UNCHANGED << code, tokens, variables, functions, mainStart, mainEnd, stack, out, err, pc, exitCode >>

MainLoopInclude ==
    /\ InMainLoop
    /\ isKeyword(Tok(currentToken), T_hash_include)
    /\ CallInclude

MainLoopVariableDeclaration ==
    /\ InMainLoop
    /\ isTypeKeyword(Tok(currentToken))
    /\ CallVariableDeclaration

MainLoopFunctionDeclaration ==
    /\ InMainLoop
    /\ isKeyword(Tok(currentToken), T_void)
    /\ CallFunctionDeclaration

MainLoopIf ==
    /\ InMainLoop
    /\ isKeyword(Tok(currentToken), T_if)
    /\ CallIfStatement(stack)

MainLoopStatement ==
    /\ InMainLoop
    /\ Tok(currentToken).type = "IDENTIFIER"
    /\ CallStatement

\* The final else of the loop: any other token is passed.
MainLoopSkip ==
    /\ InMainLoop
    /\ Tok(currentToken).type \notin {"COMMENT", "IDENTIFIER"}
    /\ ~isKeyword(Tok(currentToken), T_hash_include)
    /\ ~isTypeKeyword(Tok(currentToken))
    /\ ~isKeyword(Tok(currentToken), T_void)
    /\ ~isKeyword(Tok(currentToken), T_if)
    /\ currentToken' = currentToken + 1
    /\ UNCHANGED << code, tokens, variables, functions, mainStart, mainEnd, stack, out, err, pc, exitCode >>

\* The loop condition fails: parseAndExecute returns.
MainLoopExit ==
    /\ pc = "exec" /\ stack = << >>
    /\ ~MainLoopCondition
    /\ ReturnFromMain
    /\ UNCHANGED << code, tokens, currentToken, variables, functions, mainStart, mainEnd, stack, out, err >>

(* The loop of parseBlock, one iteration per step.                         *)

BlockVariableDeclaration ==
    /\ InBlockLoop
    /\ blockBraceCount > 0
    /\ isTypeKeyword(Tok(currentToken))
    /\ CallVariableDeclaration

BlockFunctionDeclaration ==
    /\ InBlockLoop
    /\ blockBraceCount > 0
    /\ isKeyword(Tok(currentToken), T_void)
    /\ CallFunctionDeclaration

BlockIf ==
    /\ InBlockLoop
    /\ blockBraceCount > 0
    /\ isKeyword(Tok(currentToken), T_if)
    /\ CallIfStatement(stack)

BlockStatement ==
    /\ InBlockLoop
    /\ blockBraceCount > 0
    /\ Tok(currentToken).type = "IDENTIFIER"
    /\ CallStatement

\* Any other token is passed; a brace has changed braceCount.
BlockSkip ==
    /\ InBlockLoop
    /\ blockBraceCount > 0
    /\ Tok(currentToken).type # "IDENTIFIER"
    /\ ~isTypeKeyword(Tok(currentToken))
    /\ ~isKeyword(Tok(currentToken), T_void)
    /\ ~isKeyword(Tok(currentToken), T_if)
    /\ currentToken' = currentToken + 1
    /\ stack' = Append(Pop, BlockFrame(blockBraceCount))
    /\ UNCHANGED << code, tokens, variables, functions, mainStart, mainEnd, out, err, pc, exitCode >>

\* The "}" that brings braceCount to 0: the loop ends, the closing brace is
\* passed, parseBlock returns.
BlockClose ==
    /\ InBlockLoop
    /\ blockBraceCount <= 0
    /\ currentToken' = IF ValueIs(currentToken, <<"}">>) THEN currentToken + 1 ELSE currentToken
    /\ stack' = Pop
    /\ UNCHANGED << code, tokens, variables, functions, mainStart, mainEnd, out, err, pc, exitCode >>

\* The tokens ran out inside the block: the loop ends, parseBlock returns.
BlockEndOfInput ==
    /\ pc = "exec" /\ stack # << >> /\ Top.fn = "parseBlock"
    /\ currentToken >= size
    /\ stack' = Pop
    /\ UNCHANGED << code, tokens, currentToken, variables, functions, mainStart, mainEnd, out, err, pc, exitCode >>

(* The else loop of parseIfStatement, one iteration per step.              *)

InElseLoop ==
    /\ pc = "exec" /\ stack # << >> /\ Top.fn = "parseIfStatement"
    /\ ~Top.final
    /\ currentToken < size
    /\ isKeyword(Tok(currentToken), T_else)

\* else if (...) { ... }
ElseIf ==
    /\ InElseLoop
    /\ ValueIs(currentToken + 1, T_if)
    /\ \E b \in { elseIfBranch(currentToken + 1, Top.executed) } : EnterElseIf(b)

\* else { ... }: the final block; the loop breaks after it.
Else ==
    /\ InElseLoop
    /\ ~ValueIs(currentToken + 1, T_if)
    /\ ValueIs(currentToken + 1, <<"{">>)
    /\ IF ~Top.executed
       THEN /\ currentToken' = currentToken + 2
            /\ stack' = Pop \o << IfFrame(Top.executed, TRUE), BlockFrame(1) >>
       ELSE /\ currentToken' = skipBlock(currentToken + 2)
            /\ stack' = Pop
    /\ UNCHANGED << code, tokens, variables, functions, mainStart, mainEnd, out, err, pc, exitCode >>

\* A variant of ElseAlone that leaves the cursor on the else.
ElseAloneStaying ==
    /\ InElseLoop
    /\ ~ValueIs(currentToken + 1, T_if)
    /\ ~ValueIs(currentToken + 1, <<"{">>)
    /\ UNCHANGED vars

\* else followed by neither `if` nor `{`: the else is passed, the loop goes on.
ElseAlone ==
    /\ InElseLoop
    /\ ~ValueIs(currentToken + 1, T_if)
    /\ ~ValueIs(currentToken + 1, <<"{">>)
    /\ currentToken' = currentToken + 1
    /\ UNCHANGED << code, tokens, variables, functions, mainStart, mainEnd, stack, out, err, pc, exitCode >>

\* No else follows, or the final block has returned: parseIfStatement returns.
IfReturn ==
    /\ pc = "exec" /\ stack # << >> /\ Top.fn = "parseIfStatement"
    /\ ~InElseLoop
    /\ stack' = Pop
    /\ UNCHANGED << code, tokens, currentToken, variables, functions, mainStart, mainEnd, out, err, pc, exitCode >>

Next ==
    \/ RunFile
    \/ FindMain
    \/ NoMainFunction
    \/ FindMainEnd
    \/ MainNotClosed
    \/ CodeOutsideMain
    \/ StartExecution
    \/ MainLoopComment
    \/ MainLoopInclude
    \/ MainLoopVariableDeclaration
    \/ MainLoopFunctionDeclaration
    \/ MainLoopIf
    \/ MainLoopStatement
    \/ MainLoopSkip
    \/ MainLoopExit
    \/ BlockVariableDeclaration
    \/ BlockFunctionDeclaration
    \/ BlockIf
    \/ BlockStatement
    \/ BlockSkip
    \/ BlockClose
    \/ BlockEndOfInput
    \/ ElseIf
    \/ Else
    \/ ElseAlone
    \/ IfReturn

Spec == Init /\ [][Next]_vars

\* The interpreter is one sequential program that is never suspended: the
\* reading and the validation of the text, which are loops over the
\* characters and the tokens, come to their end, and a step of the
\* execution that can be taken is taken.
Execute == pc = "exec" /\ Next

FairSpec == Spec /\ []<>(pc \in {"exec", "exit"}) /\ WF_vars(Execute)


-----------------------------------------------------------------------------
(* The properties.  Each is stated on the runs of Spec, over the source    *)
(* texts above.                                                            *)

\* s is a beginning of t.
IsPrefix(s, t) == Len(s) <= Len(t) /\ s = SubSeq(t, 1, Len(s))

\* A line of output.
Line(text) == text \o T_endl

\* A keyword `void` or `int` at token i, immediately followed by `main`.
MainPairAt(i) ==
    /\ i + 1 < size
    /\ Tok(i).type = "KEYWORD"
    /\ Tok(i).value = T_void \/ Tok(i).value = T_int
    /\ Tok(i + 1).value = T_main

\* Nothing has executed: no output, no entry in either table.
NothingExecuted == out = << >> /\ DOMAIN variables = {} /\ DOMAIN functions = {}

(* C1                                                                      *)

\* What the conditions of one expression or one comparison are worth.
C1_True == { Cond_One, Cond_Less, Cond_UnboundNotEqual, Cond_GreaterEqual }
C1_False == { Cond_Zero, Cond_Greater, Cond_TextEqual, Cond_False, Cond_LessEqual }

\* What the blocks of BranchBlocks and the else block print.
C1_BlockOutputs ==
    << Line(<<"A">>), Line(<<"N">>) \o Line(<<"B">>), Line(<<"C">>), Line(<<"D">>) >>
C1_ElseOutput == Line(<<"E">>)

\* The names the blocks of BranchBlocks declare.
C1_BlockBinds == << {}, {}, { <<"c">> }, {} >>

\* The first branch whose condition is true, or 0.
C1_FirstTrue(conds) ==
    IF \E i \in 1 .. Len(conds) : conds[i] \in C1_True
    THEN CHOOSE i \in 1 .. Len(conds) :
            conds[i] \in C1_True /\ \A j \in 1 .. (i - 1) : conds[j] \notin C1_True
    ELSE 0

C1_Chain(conds, withElse) ==
    [code      |-> ChainProgram(conds, withElse),
     evaluates |-> \A i \in 1 .. Len(conds) : conds[i] \in C1_True \cup C1_False,
     expected  |-> IF C1_FirstTrue(conds) # 0 THEN C1_BlockOutputs[C1_FirstTrue(conds)]
                   ELSE IF withElse THEN C1_ElseOutput
                   ELSE << >>,
     binds     |-> IF C1_FirstTrue(conds) # 0 THEN C1_BlockBinds[C1_FirstTrue(conds)] ELSE {},
     single    |-> { C1_BlockOutputs[i] : i \in 1 .. Len(conds) }
                   \cup (IF withElse THEN { C1_ElseOutput } ELSE {})]

\* The lone if of IfProgram: its block binds q and prints A; B is printed
\* after the chain.
C1_LoneIf(cond) ==
    [code      |-> IfProgram(cond),
     evaluates |-> TRUE,
     expected  |-> (IF cond \in C1_True THEN Line(<<"A">>) ELSE << >>) \o Line(<<"B">>),
     binds     |-> IF cond \in C1_True THEN { <<"q">> } ELSE {},
     single    |-> { Line(<<"A">>) \o Line(<<"B">>), Line(<<"B">>) }]

C1_Cases ==
    { C1_Chain(conds, withElse) :
        conds \in SeqsOf(ChainConditions, 1, 1 + MaxElseIf), withElse \in BOOLEAN }
    \cup { C1_LoneIf(cond) : cond \in C1_True \cup C1_False }

\* C1: If-chain exclusivity.  In a chain if / else-if* / else? in main whose
\* conditions are one expression or one comparison and whose blocks are
\* brace-balanced, never more than one block runs (the output is at all
\* times a beginning of what one block prints), and when the conditions
\* evaluate, the run ends with exactly the output and the declarations of
\* the block of the first true branch, or of the else block when none is
\* true and there is an else, or of no block; without an error.
C1_IfChainExclusivity ==
    \A c \in C1_Cases :
        code = c.code =>
            /\ \E o \in c.single : IsPrefix(out, o)
            /\ (pc = "exit" /\ c.evaluates) =>
                  /\ out = c.expected
                  /\ DOMAIN variables = c.binds
                  /\ err = << >>
                  /\ exitCode = 0

\* if (0) {A} else if (1 < 2) {B} else {E} has ended, having printed what
\* block B prints and nothing else.
C1_SecondBranchAlone ==
    /\ pc = "exit"
    /\ code = ChainProgram(<< Cond_Zero, Cond_Less >>, TRUE)
    /\ out = Line(<<"N">>) \o Line(<<"B">>)

(* C2                                                                      *)

\* The index of the first `if` token.
C2_FirstIf ==
    CHOOSE i \in 0 .. (size - 1) :
        ValueIs(i, T_if) /\ \A j \in 0 .. (i - 1) : ~ValueIs(j, T_if)

\* C2: an `if` whose condition evaluates to false runs none of the
\* statements of its block (no output of the block, no change to the
\* tables), whatever tokens stand in the parentheses, `&&` and `||`
\* included.  In IfProgram the block binds q and prints A, and B is printed
\* after the if.
C2_FalseIfSkipsBlock ==
    \A cond \in Conditions :
        ( /\ code = IfProgram(cond)
          /\ pc = "exit"
          /\ exitCode = 0
          /\ ~evaluateCondition(C2_FirstIf + 2).threw
          /\ ~evaluateCondition(C2_FirstIf + 2).result )
        => /\ out = Line(<<"B">>)
           /\ DOMAIN variables = {}
           /\ DOMAIN functions = {}

\* if (1 == 2 && 3 == 3) { int q; crym("A"); } has ended with the block run.
C2_BlockOfFalseIfRan ==
    /\ pc = "exit"
    /\ code = IfProgram(Cond_AndFalse)
    /\ ~evaluateCondition(C2_FirstIf + 2).result
    /\ out = Line(<<"A">>) \o Line(<<"B">>)
    /\ <<"q">> \in DOMAIN variables

(* C3                                                                      *)

\* C3: Entry-block requirement.  When no keyword `void` or `int` is
\* immediately followed by `main`, nothing executes (no output, both tables
\* empty) and the run ends having reported the no-main error, and only it.
C3_NoMainNoExecution ==
    (tokens # << >> /\ ~\E i \in 0 .. (size - 1) : MainPairAt(i)) =>
        /\ NothingExecuted
        /\ pc \in {"findMain", "exit"}
        /\ pc = "exit" => err = << ErrNoMain >>

\* float main() { crym("A"); int k; } has ended with the no-main error.
C3_FloatMainRejected ==
    /\ pc = "exit"
    /\ code = Src_FloatMain \o St_CrymA \o St_DeclK \o Src_Close
    /\ err = << ErrNoMain >>

(* C4                                                                      *)

\* An IDENTIFIER crym, inp or Sleep at token i, outside [mainStart, mainEnd].
C4_IntrinsicOutside(i) ==
    /\ Tok(i).type = "IDENTIFIER"
    /\ Tok(i).value \in { T_crym, T_inp, T_Sleep }
    /\ i < mainStart \/ i > mainEnd

\* C4: Outside-main rejection.  Once the bounds of main are set, an
\* intrinsic name outside [mainStart, mainEnd] means that nothing executes
\* (no output, tables empty; the execution loop is never entered) and that
\* the run ends with one error, which carries the line of the first such
\* token.  So whenever the execution loop runs, every intrinsic name is
\* within [mainStart, mainEnd].
C4_OutsideMainRejected ==
    (mainEnd # 0 /\ \E i \in 0 .. (size - 1) : C4_IntrinsicOutside(i)) =>
        /\ NothingExecuted
        /\ pc \in {"checkOutside", "exit"}
        /\ pc = "exit" =>
              \E i \in 0 .. (size - 1) :
                  /\ C4_IntrinsicOutside(i)
                  /\ \A j \in 0 .. (i - 1) : ~C4_IntrinsicOutside(j)
                  /\ err = << ErrOutsideMain(Tok(i).line) >>

\* A well-formed main followed by Sleep(1); has ended with the error of the
\* line of that Sleep.
C4_SleepAfterMainRejected ==
    /\ pc = "exit"
    /\ mainEnd # 0
    /\ \E i \in (mainEnd + 1) .. (size - 1) :
          /\ C4_IntrinsicOutside(i)
          /\ Tok(i).value = T_Sleep
          /\ err = << ErrOutsideMain(Tok(i).line) >>
    /\ ~\E i \in 0 .. (mainStart - 1) : C4_IntrinsicOutside(i)

(* C5                                                                      *)

\* The first (void|int) main pair.
C5_FirstPair ==
    CHOOSE i \in 0 .. (size - 1) : MainPairAt(i) /\ \A j \in 0 .. (i - 1) : ~MainPairAt(j)

\* `main` at token i, immediately followed by `(`.
C5_MainParen(i) == ValueIs(i, T_main) /\ ValueIs(i + 1, <<"(">>)

\* The first `main (` from the pair on: the depth is counted from its `(`.
C5_Open ==
    CHOOSE i \in C5_FirstPair .. (size - 1) :
        C5_MainParen(i) /\ \A j \in C5_FirstPair .. (i - 1) : ~C5_MainParen(j)

\* The brace depth after token i.
C5_Depth(i) ==
    Cardinality({ j \in (C5_Open + 1) .. i : Tok(j).value = <<"{">> })
    - Cardinality({ j \in (C5_Open + 1) .. i : Tok(j).value = <<"}">> })

\* Token i is a `}` at which the depth is zero.
C5_Closes(i) == Tok(i).value = <<"}">> /\ C5_Depth(i) = 0

\* The depth returns to zero somewhere.
C5_Closed ==
    /\ \E i \in C5_FirstPair .. (size - 1) : C5_MainParen(i)
    /\ \E i \in (C5_Open + 1) .. (size - 1) : C5_Closes(i)

\* C5: Entry-block bounds.  When mainEnd has been assigned, it is the first
\* `}` at which the brace depth, counted from the `(` that follows `main`,
\* is zero, and the execution loop runs only then.  When the depth never
\* returns to zero, the run ends with mainEnd not assigned, nothing
\* executed, and the not-properly-closed error, and only it.
C5_EntryBlockBounds ==
    /\ pc = "checkOutside" =>
          /\ C5_Closed
          /\ mainEnd > C5_Open
          /\ C5_Closes(mainEnd)
          /\ \A j \in (C5_Open + 1) .. (mainEnd - 1) : ~C5_Closes(j)
    /\ pc = "exec" => mainEnd # 0
    /\ (pc = "exit" /\ (\E i \in 0 .. (size - 1) : MainPairAt(i)) /\ ~C5_Closed) =>
          /\ mainEnd = 0
          /\ NothingExecuted
          /\ err = << ErrNotClosed >>

\* The bounds of a main are set, over a `}` inside it that closes a nested
\* block.
C5_NestedBlockInsideBounds ==
    /\ pc = "checkOutside"
    /\ \E j \in (mainStart + 1) .. (mainEnd - 1) : Tok(j).value = <<"}">>


(* C6                                                                      *)

\* C6: Execution is confined to the entry block.  Once the cursor has
\* passed mainEnd, no step changes the output or either table.
C6_ConfinedToEntryBlock ==
    [][(pc = "exec" /\ currentToken > mainEnd) =>
          (out' = out /\ variables' = variables /\ functions' = functions)]_vars

\* void g() {...} if (1) { f( } } ) g(); has printed the marker of g with
\* the cursor beyond mainEnd.
C6_CallBeyondMainEnd ==
    /\ pc = "exec"
    /\ code = StatementProgram(<< St_FunctionG, St_CallEatsBraces >>)
    /\ currentToken > mainEnd
    /\ out = T_executing \o <<"g">> \o T_endl

(* C7                                                                      *)

\* Statements that run whole, with what each prints and declares, and
\* whether it fails: Sleep with a first argument that is no integer text,
\* an ordering comparison with an unbound name.
C7_Statements ==
    { [text |-> St_CrymA,         prints |-> Line(<<"A">>), binds |-> {},        fails |-> FALSE],
      [text |-> St_CrymB,         prints |-> Line(<<"B">>), binds |-> {},        fails |-> FALSE],
      [text |-> St_DeclK,         prints |-> << >>,         binds |-> {<<"k">>}, fails |-> FALSE],
      [text |-> St_DeclInit,      prints |-> Line(<<"7">>), binds |-> {<<"v">>}, fails |-> FALSE],
      [text |-> St_Inp,           prints |-> <<"p">>,       binds |-> {},        fails |-> FALSE],
      [text |-> St_SleepOne,      prints |-> << >>,         binds |-> {},        fails |-> FALSE],
      [text |-> St_Comment,       prints |-> << >>,         binds |-> {},        fails |-> FALSE],
      [text |-> St_SleepUnbound,  prints |-> << >>,         binds |-> {},        fails |-> TRUE],
      [text |-> St_SleepString,   prints |-> << >>,         binds |-> {},        fails |-> TRUE],
      [text |-> St_IfUnboundLess, prints |-> << >>,         binds |-> {},        fails |-> TRUE] }

\* The statements before the first failing one.
RECURSIVE C7_Before(_)
C7_Before(sts) ==
    IF sts = << >> \/ Head(sts).fails THEN << >>
    ELSE << Head(sts) >> \o C7_Before(Tail(sts))

C7_Texts(sts) == [i \in 1 .. Len(sts) |-> sts[i].text]
C7_Prints(sts) == Flatten([i \in 1 .. Len(sts) |-> sts[i].prints])
C7_Binds(sts) == UNION { sts[i].binds : i \in 1 .. Len(sts) }

C7_Case(sts) ==
    [code   |-> StatementProgram(C7_Texts(sts)),
     fails  |-> \E i \in 1 .. Len(sts) : sts[i].fails,
     prints |-> C7_Prints(C7_Before(sts)),
     binds  |-> C7_Binds(C7_Before(sts))]

C7_Cases == { C7_Case(sts) : sts \in SeqsOf(C7_Statements, 0, MaxStatements) }

C8_NonNumeric ==
    { Cond_UnboundLess, Cond_StringLess, Cond_KeywordLess, Cond_EmptyRight,
      Cond_DotLess, Cond_MalformedLess }

\* C8: Ordering comparisons reject non-numeric operands.  The run of an if
\* on such a comparison ends aborted, the comparison having yielded neither
\* true nor false: neither the block nor what follows it has run.
C8_OrderingRejectsNonNumeric ==
    \A cond \in C8_NonNumeric :
        (code = IfProgram(cond) /\ pc = "exit") =>
            /\ exitCode = AbortStatus
            /\ NothingExecuted

\* if (1.2.3 < 2) {...} has ended normally with the block run: the
\* comparison yielded true.
C8_MalformedLiteralCompared ==
    /\ pc = "exit"
    /\ code = IfProgram(Cond_MalformedLess)
    /\ exitCode = 0
    /\ out = Line(<<"A">>) \o Line(<<"B">>)

(* C9                                                                      *)

\* A fatal error was reported, or the run was aborted.
C9_Fatal ==
    \/ \E i \in 1 .. Len(err) :
          err[i].msg \in { ErrNoMain.msg, ErrNotClosed.msg, ErrOutsideMain(0).msg }
    \/ exitCode = AbortStatus

\* C9: Every fatal error ends the process with a non-zero exit status:
\* missing main, unterminated main, an intrinsic outside main, a failed
\* ordering comparison, a failed Sleep argument.
C9_FatalErrorExitsNonZero == (pc = "exit" /\ C9_Fatal) => exitCode # 0

\* A text without main has ended with the no-main error and exit status 0.
C9_NoMainExitsZero ==
    /\ pc = "exit"
    /\ code = St_CrymA \o St_DeclK
    /\ err = << ErrNoMain >>
    /\ exitCode = 0

(* C10                                                                     *)

\* The declarations without initialiser, and the default text of each.
C10_Defaults ==
    { [decl |-> Decl_Int,    text |-> <<"0">>],
      [decl |-> Decl_Float,  text |-> <<"0", ".", "0">>],
      [decl |-> Decl_Bool,   text |-> <<"f", "a", "l", "s", "e">>],
      [decl |-> Decl_String, text |-> << >>] }

C10_Cases ==
    { [code |-> DeclarationProgram(before, d.decl, end, inBlock), text |-> d.text] :
        before \in Befores, d \in C10_Defaults, end \in DeclarationEnds,
        inBlock \in BOOLEAN }

\* C10: Declaration defaults.  `T x` without `=`, in main or in a block,
\* after an earlier binding of x or none, followed by crym(x): the run ends
\* with x bound to the default text of T (0, 0.0, false, the empty text) and
\* with exactly that text printed, as one line.
C10_DeclarationDefaults ==
    \A c \in C10_Cases :
        (code = c.code /\ pc = "exit") =>
            /\ exitCode = 0
            /\ DOMAIN variables = { <<"x">> }
            /\ variables[<<"x">>].value = c.text
            /\ out = Line(c.text)

\* int x = 5; string x; crym(x); has ended with x bound to the empty text
\* and an empty line printed.
C10_StringOverwritesInt ==
    /\ pc = "exit"
    /\ code = DeclarationProgram(Before_IntX, Decl_String, End_Semicolon, FALSE)
    /\ variables[<<"x">>].value = << >>
    /\ out = T_endl


(* C11                                                                     *)

\* The operands of EqualityProgram and the text each stands for: a literal
\* its own text (a quoted one with its quotes), n the text bound to it, an
\* unbound name itself.
C11_Operands ==
    { [src |-> Opd_One,      text |-> <<"1">>],
      [src |-> Opd_OneFloat, text |-> <<"1", ".", "0">>],
      [src |-> Opd_TextOne,  text |-> <<"\"", "1", "\"">>],
      [src |-> Opd_BoundN,   text |-> <<"1">>],
      [src |-> Opd_Unbound,  text |-> <<"x">>],
      [src |-> Opd_True,     text |-> <<"t", "r", "u", "e">>] }

C11_Cases ==
    { [code  |-> EqualityProgram(l.src, Op_Equal, r.src), holds |-> (l.text = r.text)] :
        l \in C11_Operands, r \in C11_Operands }
    \cup
    { [code  |-> EqualityProgram(l.src, Op_NotEqual, r.src), holds |-> (l.text # r.text)] :
        l \in C11_Operands, r \in C11_Operands }

\* C11: Equality is verbatim text comparison.  An if on `l == r` takes its
\* block exactly when the two operand texts are the same characters, one on
\* `l != r` exactly when they are not, without numeric normalisation (1.0
\* and 1 differ), and the run never aborts or reports an error.
C11_EqualityIsVerbatim ==
    \A c \in C11_Cases :
        (code = c.code /\ pc = "exit") =>
            /\ out = (IF c.holds THEN Line(<<"e", "q">>) ELSE Line(<<"n", "e", "q">>))
            /\ exitCode = 0
            /\ err = << >>

\* if (1.0 == 1) {eq} else {neq} has ended having printed neq.
C11_OneFloatUnequalOne ==
    /\ pc = "exit"
    /\ code = EqualityProgram(Opd_OneFloat, Op_Equal, Opd_One)
    /\ out = Line(<<"n", "e", "q">>)


(* C12                                                                     *)

\* C12: Include directive.  A main that holds the line `#include <io>` and
\* then crym("A") ends having written the inclusion notice of io and then
\* A, with both tables unchanged.
C12_IncludeWritesNotice ==
    \A inc \in Includes :
        (code = IncludeProgram(inc) /\ pc = "exit") =>
            /\ out = T_including \o <<"i", "o">> \o T_endl \o Line(<<"A">>)
            /\ DOMAIN variables = {}
            /\ DOMAIN functions = {}

\* The run of `#include <io>` and crym("A") in main has ended with A as its
\* whole output; the scanner had made one Keyword token of the include line.
C12_NoNoticeWritten ==
    /\ pc = "exit"
    /\ code = IncludeProgram(Inc_Io)
    /\ \E i \in 0 .. (size - 1) :
          Tok(i).type = "KEYWORD" /\ Tok(i).value = <<"#", "i", "n", "c", "l", "u", "d", "e", " ", "<", "i", "o", ">">>
    /\ out = Line(<<"A">>)


(* C13                                                                     *)

\* What a call prints when g is declared: g its marker, h nothing.
C13_Marker(call) ==
    IF call \in { Call_G, Call_GArg } THEN T_executing \o <<"g">> \o T_endl ELSE << >>

C13_Case(decl, calls, declFirst) ==
    [code     |-> FunctionProgram(decl, calls, declFirst),
     prints   |-> IF decl # << >> /\ declFirst
                  THEN Flatten([i \in 1 .. Len(calls) |-> C13_Marker(calls[i])])
                  ELSE << >>,
     declares |-> IF decl # << >> THEN { <<"g">> } ELSE {}]

C13_Cases ==
    { C13_Case(decl, calls, declFirst) :
        decl \in FunctionDeclarations, calls \in SeqsOf(Calls, 0, MaxCalls),
        declFirst \in BOOLEAN }

C14_Declarations ==
    { [decl |-> Scope_DeclInit,    value |-> <<"7">>,                     prints |-> <<"7">>],
      [decl |-> Scope_DeclText,    value |-> <<"\"", "i", "n", "\"">>,    prints |-> <<"i", "n">>],
      [decl |-> Scope_DeclDefault, value |-> <<"f", "a", "l", "s", "e">>, prints |-> <<"f", "a", "l", "s", "e">>] }

C14_Cases ==
    { [code |-> ScopeProgram(before, nest, d.decl), value |-> d.value, prints |-> d.prints] :
        before \in Befores, nest \in Nestings, d \in C14_Declarations }

\* C14: Single flat scope.  x declared inside an executed if, else-if or
\* else body, one or two blocks deep, is bound in the one variable table,
\* over any binding of x made before the blocks: after the closing braces
\* crym(x) prints the value declared inside, and the run ends with x still
\* bound to it.
C14_SingleFlatScope ==
    \A c \in C14_Cases :
        (code = c.code /\ pc = "exit") =>
            /\ DOMAIN variables = { <<"x">> }
            /\ variables[<<"x">>].value = c.value
            /\ out = Line(c.prints)
            /\ exitCode = 0

\* int x = 5; if (1) { if (0) { } else { int x = 7; } } crym(x); has ended
\* having printed 7.
C14_InnerDeclarationOutlivesBlocks ==
    /\ pc = "exit"
    /\ code = ScopeProgram(Before_IntX,
                           [open |-> Src_IfOneOpen \o Nest_ElseOpen, close |-> Src_Close \o Src_Close],
                           Scope_DeclInit)
    /\ variables[<<"x">>].value = <<"7">>
    /\ out = Line(<<"7">>)


(* C15                                                                     *)

\* C15: Cursor monotonicity.  From the step that places the cursor at
\* mainStart to the end of the run, no step of the execution loop, of a
\* block or of an if chain (a skipped block, a nested chain and a function
\* declaration included) leaves the cursor below the value it had.
C15_CursorNeverRewound ==
    [][pc = "exec" => currentToken' >= currentToken]_vars

\* Inside the else block of a chain nested in an if block, past the skipped
\* if (0) block, the cursor is beyond mainStart.
C15_PastSkippedBlockInNestedChain ==
    /\ pc = "exec"
    /\ code = ScopeProgram(Before_IntX,
                           [open |-> Src_IfOneOpen \o Nest_ElseOpen, close |-> Src_Close \o Src_Close],
                           Scope_DeclInit)
    /\ Len(stack) >= 3
    /\ Top.fn = "parseBlock"
    /\ Tok(currentToken).value = T_int
    /\ currentToken > mainStart


(* C16                                                                     *)

\* What crym(args) writes: with s bound to "hi" and n to 7, and with
\* neither bound.
C16_Writes ==
    { [args |-> Arg_None,      bound |-> << >>,                      unbound |-> << >>],
      [args |-> Arg_Text,      bound |-> Line(<<"A">>),              unbound |-> Line(<<"A">>)],
      [args |-> Arg_Spaced,    bound |-> Line(<<"a", " ", "b">>),    unbound |-> Line(<<"a", " ", "b">>)],
      [args |-> Arg_EmptyText, bound |-> Line(<< >>),                unbound |-> Line(<< >>)],
      [args |-> Arg_Integer,   bound |-> Line(<<"4", "2">>),         unbound |-> Line(<<"4", "2">>)],
      [args |-> Arg_Decimal,   bound |-> Line(<<"1", ".", "5">>),    unbound |-> Line(<<"1", ".", "5">>)],
      [args |-> Arg_S,         bound |-> Line(<<"h", "i">>),         unbound |-> Line(<<"s">>)],
      [args |-> Arg_N,         bound |-> Line(<<"7">>),              unbound |-> Line(<<"n">>)],
      [args |-> Arg_TwoTexts,  bound |-> Line(<<"A">>),              unbound |-> Line(<<"A">>)],
      [args |-> Arg_NThenText, bound |-> Line(<<"7">>),              unbound |-> Line(<<"n">>)],
      [args |-> Arg_TextThenS, bound |-> Line(<<"z">>),              unbound |-> Line(<<"z">>)] }

C16_Cases ==
    { [code |-> CrymProgram(Crym_Bindings, w.args), out |-> w.bound] : w \in C16_Writes }
    \cup { [code |-> CrymProgram(<< >>, w.args), out |-> w.unbound] : w \in C16_Writes }

\* C16: crym output.  A call of crym writes one line: its first argument
\* without one pair of surrounding double quotes, where a string or number
\* literal stands for its own text, a bound identifier for the text stored
\* for it, an unbound identifier for its name; a call without arguments
\* writes nothing.
C16_CrymWritesFirstArgument ==
    \A c \in C16_Cases :
        (code = c.code /\ pc = "exit") => (out = c.out /\ exitCode = 0)

\* crym(n, "z"); with n bound to 7 has written the line 7.
C16_BoundFirstArgumentWritten ==
    /\ pc = "exit"
    /\ code = CrymProgram(Crym_Bindings, Arg_NThenText)
    /\ variables[<<"n">>].value = <<"7">>
    /\ out = Line(<<"7">>)


(* C17                                                                     *)

C18_Executes == { Cond_One, Cond_Less }

\* The chains whose if runs its block and whose last else-if compares the
\* unbound name a with <.
C18_Chains ==
    { ChainProgram(conds, withElse) :
        conds \in { cs \in SeqsOf(ChainConditions, 2, 1 + MaxElseIf) :
                        /\ cs[1] \in C18_Executes
                        /\ cs[Len(cs)] = Cond_UnboundLess
                        /\ \A i \in 2 .. (Len(cs) - 1) : cs[i] \in C1_True \cup C1_False },
        withElse \in BOOLEAN }

\* C18: Else-if conditions are evaluated only while no branch has executed.
\* After the block of the if has run, the condition a < 1 of a later
\* else-if, an ordering comparison with a non-numeric operand, is not
\* evaluated: the run ends without an error, with the output of the first
\* block alone.
C18_LaterConditionNotEvaluated ==
    (code \in C18_Chains /\ pc = "exit") =>
        (exitCode = 0 /\ out = Line(<<"A">>))

\* if (1) { crym("A"); } else if (a < 1) { ... } has printed A and then
\* ended with the abort status.
C18_AbortedAfterBranchRan ==
    /\ pc = "exit"
    /\ code = ChainProgram(<<Cond_One, Cond_UnboundLess>>, FALSE)
    /\ out = Line(<<"A">>)
    /\ exitCode = AbortStatus


(* C19                                                                     *)

\* parseVariableDeclaration is about to run on `type name = ...` and will
\* call parseExpression with the cursor three tokens on, inside the token
\* sequence.
C19_InitialiserCall ==
    /\ InMainLoop \/ (InBlockLoop /\ blockBraceCount > 0)
    /\ isTypeKeyword(Tok(currentToken))
    /\ currentToken + 3 < size
    /\ Tok(currentToken + 1).type = "IDENTIFIER"
    /\ ValueIs(currentToken + 2, <<"=">>)
    /\ Tok(currentToken + 3).type # "END_OF_FILE"

\* The tokens parseExpression gives a text for.
C19_IsValue(t) ==
    \/ t.type \in {"STRING", "NUMBER", "IDENTIFIER"}
    \/ isKeyword(t, T_true) \/ isKeyword(t, T_false)

\* C19: parseExpression advances the cursor by exactly one token on every
\* call made with the cursor inside the token sequence, whatever the kind
\* of the token there, and returns the empty text for a token that is no
\* string, number, identifier, true or false.  Stated for the call that
\* reads the initialiser of a declaration.
C19_AdvancesByOneToken ==
    C19_InitialiserCall =>
        /\ parseExpression(currentToken + 3).cur = currentToken + 4
        /\ ~C19_IsValue(Tok(currentToken + 3)) =>
               parseExpression(currentToken + 3).value = T_empty

\* int x = int y = 3; crym(y); crym(x); has ended with y bound to 3 by the
\* declaration that begins at the token parseExpression did not consume,
\* and has printed 3 and an empty line.
C19_KeywordLeftForNextDeclaration ==
    /\ pc = "exit"
    /\ code = InitialiserProgram(<< >>, Rhs_Declaration)
    /\ variables[<<"x">>].value = T_empty
    /\ variables[<<"y">>].value = <<"3">>
    /\ out = Line(<<"3">>) \o Line(<< >>)


(* C20                                                                     *)

\* C20: Termination.  Every run of the interpreter on a source text ends
\* (crym, inp and Sleep being steps that return), and it does so because
\* every step of the execution loop, of a block and of an if chain moves
\* the cursor forward by at least one token, or returns from its loop with
\* the cursor where it was, or ends the run.
C20_Terminates ==
    /\ <>(pc = "exit")
    /\ [][pc = "exec" =>
            \/ currentToken' > currentToken
            \/ currentToken' = currentToken /\ Len(stack') < Len(stack)
            \/ pc' = "exit"]_vars

\* A run through a function declaration inside a block, followed by two
\* calls, has ended normally with the cursor beyond the entry block.
C20_EndedBeyondEntryBlock ==
    /\ pc = "exit"
    /\ exitCode = 0
    /\ code = FunctionProgram(Fn_GInBlock, <<Call_G, Call_H>>, TRUE)
    /\ currentToken > mainEnd
    /\ stack = << >>


(* C21                                                                     *)

\* A step of the execution loop, of parseBlock's loop or of the else loop is
\* about to read the token at the cursor.
C21_ReadsAtCursor == InMainLoop \/ InBlockLoop \/ InElseLoop

\* C21: Cursor bounds.  In every reachable state the cursor is at most the
\* number of tokens; the indices the validator has found (mainStart,
\* mainEnd, and the index after mainStart that holds `main`) are below it;
\* and a step that reads the token at the cursor finds the cursor below it:
\* for every text, those whose blocks are not closed included.
C21_CursorBounds ==
    /\ currentToken <= size
    /\ pc \in {"findMainEnd", "checkOutside", "exec"} =>
           (mainStart + 1 < size /\ Tok(mainStart + 1).value = T_main)
    /\ pc \in {"checkOutside", "exec"} => (mainStart < mainEnd /\ mainEnd < size)
    /\ C21_ReadsAtCursor => currentToken < size

\* A run whose last block is not closed has ended with the cursor at the
\* number of tokens, past the END_OF_FILE token.
C21_CursorAtEndOfTokens ==
    /\ pc = "exit"
    /\ exitCode = 0
    /\ mainEnd # 0
    /\ size > 0
    /\ currentToken = size


(* C22                                                                     *)

\* The number of tokens `text` at the indices from .. to.
C22_Count(from, to, text) == Cardinality({ k \in from .. to : Tok(k).value = text })

\* The "}" at j closes the block whose first token is at from: up to j one
\* more "}" than "{", and not so at any index before.
C22_Closes(from, j) ==
    /\ C22_Count(from, j, <<"}">>) = C22_Count(from, j, <<"{">>) + 1
    /\ \A k \in from .. (j - 1) : C22_Count(from, k, <<"}">>) <= C22_Count(from, k, <<"{">>)

\* The index after the "}" that closes the block entered at from, or the
\* number of tokens when nothing closes it.
C22_AfterBlock(from) ==
    IF \E j \in from .. (size - 1) : C22_Closes(from, j)
    THEN 1 + CHOOSE j \in from .. (size - 1) : C22_Closes(from, j)
    ELSE size

\* The step about to be taken skips a block: that of an `if` whose
\* condition is false, that of an `else` after a branch has run, that of
\* an `else if` after a branch has run or whose condition is false.
C22_IfSkips ==
    /\ InMainLoop \/ (InBlockLoop /\ blockBraceCount > 0)
    /\ isKeyword(Tok(currentToken), T_if)
    /\ ifHead(currentToken).to = "chain"

C22_ElseSkips ==
    /\ InElseLoop
    /\ ~ValueIs(currentToken + 1, T_if)
    /\ ValueIs(currentToken + 1, <<"{">>)
    /\ Top.executed

C22_ElseIfSkips ==
    /\ InElseLoop
    /\ ValueIs(currentToken + 1, T_if)
    /\ ValueIs(currentToken + 2, <<"(">>)
    /\ ~evaluateCondition(currentToken + 3).threw
    /\ ValueIs(evaluateCondition(currentToken + 3).cur, <<")">>)
    /\ ValueIs(evaluateCondition(currentToken + 3).cur + 1, <<"{">>)
    /\ Top.executed \/ ~evaluateCondition(currentToken + 3).result

\* The output and the two tables stay as they are.
C22_NoEffect == out' = out /\ variables' = variables /\ functions' = functions

\* C22: Skipping a block has no effect but cursor movement.  A step that
\* skips a block leaves the output, the variables and the functions as
\* they were, whatever the block holds, and leaves the cursor just after
\* the "}" that closes the block, or at the end of the tokens when nothing
\* closes it.
C22_SkipOnlyMovesCursor ==
    [][/\ C22_IfSkips =>
              /\ C22_NoEffect
              /\ currentToken' = C22_AfterBlock(evaluateCondition(currentToken + 2).cur + 2)
       /\ C22_ElseSkips =>
              /\ C22_NoEffect
              /\ currentToken' = C22_AfterBlock(currentToken + 2)
       /\ C22_ElseIfSkips =>
              /\ C22_NoEffect
              /\ currentToken' = C22_AfterBlock(evaluateCondition(currentToken + 3).cur + 2)]_vars

\* if (0) { int v = 1; void g() { } if (1) { crym("S"); } } crym(v); g();
\* has ended with nothing bound or declared, having printed the name v.
C22_SkippedBlockLeftNoTrace ==
    /\ pc = "exit"
    /\ code = SkipProgram(Skip_IfZeroOpen)
    /\ variables = EmptyMap
    /\ functions = EmptyMap
    /\ out = Line(<<"v">>)

-----------------------------------------------------------------------------
\* The name is spelled by a token at or after mainStart.
C23_SpelledFromMain(name) == \E i \in mainStart .. (size - 1) : Tok(i).value = name

\* The program with a directive, a declaration of x and a declaration of g
\* before `void main() {`.
C23_AllBeforeMain == TopLevelProgram(Top_Include \o Top_Variable \o Top_Function, Src_VoidMain)

\* C23: Tokens before the entry block are never executed.  While the
\* program executes the cursor is at or after mainStart, where the step
\* that starts the execution puts it; every variable bound and every
\* function registered is named by a token at or after mainStart; and a
\* program that declares x and g only before main, and whose main is
\* crym(x); g();, ends with x unbound, g unregistered and the one line x
\* printed: neither the value of x nor an execution marker for g.
C23_NothingBeforeMainRuns ==
    /\ pc = "exec" => currentToken >= mainStart
    /\ \A name \in DOMAIN variables : C23_SpelledFromMain(name)
    /\ \A name \in DOMAIN functions : C23_SpelledFromMain(name)
    /\ (code \in TopLevelPrograms /\ pc \in {"exec", "exit"}) =>
           /\ <<"x">> \notin DOMAIN variables
           /\ <<"g">> \notin DOMAIN functions
           /\ IsPrefix(out, Line(<<"x">>))
    /\ (code \in TopLevelPrograms /\ pc = "exit") =>
           /\ out = Line(<<"x">>)
           /\ err = << >>
           /\ exitCode = 0

\* #include <io>, int x = 5; and void g() { } before main, crym(x); g(); in
\* main: the run has ended having printed the name x and nothing else.
C23_DeclaredBeforeMainUnknownInMain ==
    /\ pc = "exit"
    /\ code = C23_AllBeforeMain
    /\ mainStart > 0
    /\ out = Line(<<"x">>)
    /\ <<"x">> \notin DOMAIN variables
    /\ <<"g">> \notin DOMAIN functions

=============================================================================
